---- MODULE Spec2Model ----
(***************************************************************************)
(* Model of resotocore's benchmark inspector (InspectorService): the       *)
(* benchmark / check stores, list_checks, perform_benchmarks with its      *)
(* bounded-parallel check evaluation, the materialisation of findings and  *)
(* load_benchmarks; and of the query model (core.query.model): terms,      *)
(* parts, the fluent interface of Query, the rewrite for ancestors and     *)
(* descendants and the renderings.                                         *)
(***************************************************************************)
EXTENDS Integers, Sequences, FiniteSets, TLC

VARIABLES
    benchmark_db,     \* BenchmarkDb: user benchmarks, dict id -> benchmark
    report_check_db,  \* ReportCheckDb: user checks, dict id -> check
    call,             \* last store call: [op, id, outcome, before, db_before, arg, errors]
    db_ops,           \* operations that reached benchmark_db during that call
    stored,           \* history: user benchmarks written and not deleted since
    pc,               \* position of the perform_benchmarks / load_benchmarks call
    args,             \* arguments of the call (context, names, sync, ignore_checks)
    checks,           \* perform_benchmarks: the list of checks to evaluate
    task,             \* per index of checks: the perform_single task
    cursors,          \* graph-db cursors currently open
    results,          \* __perform_checks: dict check id -> SingleCheckResult
    result,           \* perform_benchmarks: dict name -> BenchmarkResult
    security,         \* graph: node -> materialised security issues
    writes,           \* graph db: the update_security_section calls received
    load,             \* load_benchmarks: [pos, check_results, result]
    query,            \* query model: the Query built by the fluent calls so far
    qcall,            \* query model: the last call [op, n, before, prev, ...]
    events,           \* event registry: _events, dict event type -> dict listener -> info
    rwlock,           \* event registry: _events_lock [readers, writer]
    caller,           \* event registry: per caller thread the call it is in
    threads,          \* event registry: the listener threads started so far
    begun             \* event registry: number of calls begun

vars == <<benchmark_db, report_check_db, call, db_ops, stored, pc, args, checks,
          task, cursors, results, result, security, writes, load, query, qcall,
          events, rwlock, caller, threads, begun>>

storeVars == <<benchmark_db, report_check_db, call, db_ops, stored>>
runVars == <<pc, args, checks, task, cursors, results, result, security, writes, load>>
queryVars == <<query, qcall>>
eventVars == <<events, rwlock, caller, threads, begun>>

----------------------------------------------------------------------------
(* Bounds and program constants *)

NumNodes == 3

DefaultParallelChecks == 10

\* Optional[T]: None is the empty tuple, a present value x is <<x>>
None == <<>>

Some(x) == <<x>>

----------------------------------------------------------------------------
(* Python dicts: insertion-ordered sequences of <<key, value>> pairs *)

EmptyDict == <<>>

DictKeys(d) == {d[i][1] : i \in 1..Len(d)}

DictHas(d, k) == \E i \in 1..Len(d) : d[i][1] = k

DictGet(d, k, default) ==
    IF DictHas(d, k) THEN d[CHOOSE i \in 1..Len(d) : d[i][1] = k][2] ELSE default

DictPut(d, k, v) ==
    IF DictHas(d, k)
    THEN [i \in 1..Len(d) |-> IF d[i][1] = k THEN <<k, v>> ELSE d[i]]
    ELSE Append(d, <<k, v>>)

DictPop(d, k) == SelectSeq(d, LAMBDA e : e[1] # k)

DictValues(d) == [i \in 1..Len(d) |-> d[i][2]]

RECURSIVE DictUpdate(_, _)
DictUpdate(d, other) ==
    IF other = <<>> THEN d
    ELSE DictUpdate(DictPut(d, other[1][1], other[1][2]), Tail(other))

SeqToSet(s) == {s[i] : i \in 1..Len(s)}

RECURSIVE Concat(_)
Concat(ss) == IF ss = <<>> THEN <<>> ELSE Head(ss) \o Concat(Tail(ss))

----------------------------------------------------------------------------
(* The report model: severities, checks, benchmarks *)

ReportSeverity == <<"info", "low", "medium", "high", "critical">>

Prio(s) == CHOOSE i \in 1..Len(ReportSeverity) : ReportSeverity[i] = s

\* ReportCheck. detect is the key of the detect map that is set ("none" when
\* none is); parses: the detection string parses; detects: the kinds the
\* detection string mentions; the remaining fields say whether the text is
\* non-empty.
Check(id, sev, detect, provider, kinds) ==
    [id |-> id, severity |-> sev, detect |-> detect, parses |-> TRUE,
     provider |-> provider, service |-> "ec2", categories |-> {"security"},
     result_kinds |-> kinds, detects |-> kinds,
     remediation_text |-> TRUE, remediation_url |-> TRUE,
     title |-> TRUE, risk |-> TRUE, origin |-> "file"]

UserCheck(id, sev, detect, provider, kinds) ==
    [Check(id, sev, detect, provider, kinds) EXCEPT !.origin = "user"]

checks_from_file ==
    << <<"c1", Check("c1", "high", "resoto", "aws", {"k1"})>>,
       <<"c2", Check("c2", "low", "resoto_cmd", "aws", {"k2"})>>,
       <<"c3", Check("c3", "medium", "resoto", "gcp", {"k1"})>> >>

Collection(title, cs, children) ==
    [title |-> title, checks |-> cs, children |-> children]

Benchmark(id, cs, children, origin) ==
    [id |-> id, title |-> id, checks |-> cs, children |-> children, origin |-> origin]

benchmarks_from_file ==
    << <<"b1", Benchmark("b1", <<>>,
                 << Collection("s1", <<"c1", "c2">>, <<>>),
                    Collection("s2", <<"c2", "c3">>, <<>>) >>, "file")>> >>

RECURSIVE nested_checks(_)
nested_checks(cc) ==
    SeqToSet(cc.checks)
      \cup UNION {nested_checks(cc.children[i]) : i \in 1..Len(cc.children)}

----------------------------------------------------------------------------
(* CheckContext *)

CheckContext(accounts, severity, only_failed, parallel_checks) ==
    [accounts |-> accounts, severity |-> severity, only_failed |-> only_failed,
     parallel_checks |-> parallel_checks]

includes_severity_reversed(context, severity) ==
    IF context.severity = None THEN TRUE
    ELSE Prio(context.severity[1]) >= Prio(severity)

includes_severity(context, severity) ==
    IF context.severity = None THEN TRUE
    ELSE Prio(context.severity[1]) <= Prio(severity)

----------------------------------------------------------------------------
(* Stores: benchmarks *)

\* list_benchmarks / benchmark over the content db of the benchmark db
list_benchmarks_skip_db(db) == DictValues(benchmarks_from_file)

list_benchmarks_in(db) ==
    DictValues(DictUpdate(benchmarks_from_file, db))

list_benchmarks == list_benchmarks_in(benchmark_db)

benchmark_in(db, bid) ==
    IF DictHas(db, bid) THEN Some(DictGet(db, bid, None))
    ELSE IF DictHas(benchmarks_from_file, bid)
         THEN Some(DictGet(benchmarks_from_file, bid, None))
         ELSE None

benchmark(bid) == benchmark_in(benchmark_db, bid)

\* __benchmarks: dict name -> benchmark of the names that resolve
RECURSIVE resolve_benchmarks(_)
resolve_benchmarks(names) ==
    IF names = <<>> THEN EmptyDict
    ELSE LET rest == resolve_benchmarks(Tail(names))
             b == benchmark(Head(names))
         IN IF b = None THEN rest
            ELSE DictUpdate(<< <<Head(names), b[1]>> >>, rest)

----------------------------------------------------------------------------
(* Stores: checks *)

\* The selectors of list_checks; None switches a selector off.
CheckFilter(provider, service, category, kind, check_ids, context, ignore_checks) ==
    [provider |-> provider, service |-> service, category |-> category,
     kind |-> kind, check_ids |-> check_ids, context |-> context,
     ignore_checks |-> ignore_checks]

NoFilter == CheckFilter(None, None, None, None, None, None, None)

inspection_matches(f, inspection) ==
    /\ (f.provider = None \/ f.provider[1] = inspection.provider)
    /\ (f.service = None \/ f.service[1] = inspection.service)
    /\ (f.category = None \/ f.category[1] \in inspection.categories)
    /\ (f.kind = None \/ f.kind[1] \in inspection.result_kinds)
    /\ (f.check_ids = None \/ inspection.id \in SeqToSet(f.check_ids[1]))
    /\ (f.context = None \/ includes_severity(f.context[1], inspection.severity))
    /\ (f.ignore_checks = None \/ inspection.id \notin SeqToSet(f.ignore_checks[1]))

RECURSIVE filter_checks_keep_file(_, _, _)
filter_checks_keep_file(res, db, f) ==
    IF db = <<>> THEN res
    ELSE LET c == db[1][2]
         IN filter_checks_keep_file(
                IF inspection_matches(f, c) THEN DictPut(res, c.id, c) ELSE res,
                Tail(db), f)

RECURSIVE filter_checks_db(_, _, _)
filter_checks_db(res, db, f) ==
    IF db = <<>> THEN res
    ELSE LET c == db[1][2]
             popped == DictPop(res, c.id)
         IN filter_checks_db(
                IF inspection_matches(f, c) THEN DictPut(popped, c.id, c) ELSE popped,
                Tail(db), f)

filter_checks(f) ==
    DictValues(filter_checks_db(
        SelectSeq(checks_from_file, LAMBDA e : inspection_matches(f, e[2])),
        report_check_db, f))

list_checks(f) == filter_checks(f)

Ids(cs) == {cs[i].id : i \in 1..Len(cs)}

validate_benchmark_unchecked(b) == {}

\* __validate_benchmark
validate_benchmark(b) ==
    LET all_checks == Ids(filter_checks(NoFilter))
    IN {c \in nested_checks(b) : c \notin all_checks}

\* __validate_check: the list of errors
validate_check(check) ==
    IF check.detect \in {"resoto", "resoto_cmd"} /\ ~check.parses
    THEN <<"invalid">>
    ELSE IF check.detect = "manual" THEN <<>>
    ELSE (IF check.detect = "none" THEN <<"no detect">> ELSE <<>>)
      \o (IF check.result_kinds = {} THEN <<"no result kind">> ELSE <<>>)
      \o (IF check.result_kinds \ (IF check.detect = "none" THEN {} ELSE check.detects) # {}
          THEN <<"result kind not detected">> ELSE <<>>)
      \o (IF ~check.remediation_text THEN <<"no remediation text">> ELSE <<>>)
      \o (IF ~check.remediation_url THEN <<"no remediation url">> ELSE <<>>)
      \o (IF ~check.title THEN <<"no title">> ELSE <<>>)
      \o (IF ~check.risk THEN <<"no risk">> ELSE <<>>)

\* validate_check_collection_config: the errors of every check of the
\* collection, or the error of a collection that can not be digested
validate_check_collection_config(cs, digest) ==
    IF ~digest THEN <<"can not digest">>
    ELSE Concat([i \in 1..Len(cs) |-> validate_check(cs[i])])

----------------------------------------------------------------------------
(* Store operations.  Each handler is a function of the stores: the outcome *)
(* of the call and the operations it sends to the benchmark db.            *)

is_predefined(bid) == DictHas(benchmarks_from_file, bid)

delete_benchmark_unguarded(bid) ==
    [outcome |-> "ok", ops |-> << [op |-> "delete", id |-> bid] >>]

delete_benchmark(bid) ==
    IF is_predefined(bid)
    THEN [outcome |-> "denied", ops |-> <<>>]
    ELSE [outcome |-> "ok", ops |-> << [op |-> "delete", id |-> bid] >>]

update_benchmark(b) ==
    IF is_predefined(b.id)
    THEN [outcome |-> "denied", ops |-> <<>>]
    ELSE IF validate_benchmark(b) # {}
    THEN [outcome |-> "invalid", ops |-> <<>>]
    ELSE [outcome |-> "ok", ops |-> << [op |-> "update", id |-> b.id, value |-> b] >>]

\* BenchmarkDb.delete / BenchmarkDb.update
RECURSIVE ApplyOps(_, _)
ApplyOps(db, ops) ==
    IF ops = <<>> THEN db
    ELSE ApplyOps(IF ops[1].op = "delete" THEN DictPop(db, ops[1].id)
                  ELSE DictPut(db, ops[1].id, ops[1].value), Tail(ops))

\* History: the user benchmarks written and not deleted since
RECURSIVE StoredAfter(_, _)
StoredAfter(bs, ops) ==
    IF ops = <<>> THEN bs
    ELSE LET others == {b \in bs : b.id # ops[1].id}
         IN StoredAfter(IF ops[1].op = "delete" THEN others
                        ELSE others \cup {ops[1].value}, Tail(ops))

BenchmarkIds == {"b1", "b2", "b3"}

BenchmarkInputs ==
    { Benchmark("b1", <<"c1">>, <<>>, "user"),
      Benchmark("b2", <<"c1">>, <<>>, "user"),
      Benchmark("b2", <<"c2">>, << Collection("s", <<"u1">>, <<>>) >>, "user"),
      Benchmark("b3", <<"cX">>, <<>>, "user") }

InvalidCheckInputs ==
    { [UserCheck("u2", "low", "resoto", "aws", {"k1"}) EXCEPT !.remediation_text = FALSE],
      [UserCheck("u3", "low", "resoto_cmd", "aws", {}) EXCEPT !.remediation_url = FALSE,
                                                               !.risk = FALSE],
      [UserCheck("u4", "low", "resoto", "aws", {"k1"}) EXCEPT !.parses = FALSE,
                                                               !.remediation_url = FALSE],
      [UserCheck("u5", "low", "manual", "aws", {"k1"}) EXCEPT !.remediation_text = FALSE,
                                                               !.title = FALSE],
      [UserCheck("u6", "low", "none", "aws", {"k1"}) EXCEPT !.title = FALSE] }

CheckInputs ==
    { UserCheck("c3", "critical", "manual", "gcp", {"k1"}),
      UserCheck("c1", "info", "resoto_cmd", "aws", {"k1"}),
      UserCheck("u1", "low", "resoto", "aws", {"k1"}) } \cup InvalidCheckInputs

BenchmarkCall(op, bid, r) ==
    /\ call' = [op |-> op, id |-> bid, outcome |-> r.outcome,
                before |-> benchmark(bid), db_before |-> benchmark_db,
                arg |-> <<>>, errors |-> <<>>]
    /\ db_ops' = r.ops
    /\ benchmark_db' = ApplyOps(benchmark_db, r.ops)
    /\ stored' = StoredAfter(stored, r.ops)
    /\ UNCHANGED <<report_check_db, runVars, queryVars, eventVars>>

DeleteBenchmark ==
    \E bid \in BenchmarkIds : BenchmarkCall("delete_benchmark", bid, delete_benchmark(bid))

UpdateBenchmark ==
    \E b \in BenchmarkInputs : BenchmarkCall("update_benchmark", b.id, update_benchmark(b))

DeleteCheck ==
    \E cid \in {c.id : c \in CheckInputs} :
        /\ report_check_db' = DictPop(report_check_db, cid)
        /\ call' = [op |-> "delete_check", id |-> cid, outcome |-> "ok",
                    before |-> None, db_before |-> benchmark_db,
                    arg |-> <<>>, errors |-> <<>>]
        /\ db_ops' = <<>>
        /\ UNCHANGED <<benchmark_db, stored, runVars, queryVars, eventVars>>

UpdateCheck ==
    \E c \in CheckInputs :
        LET invalid == validate_check(c) IN
        /\ report_check_db' = IF invalid # <<>> THEN report_check_db
                              ELSE DictPut(report_check_db, c.id, c)
        /\ call' = [op |-> "update_check", id |-> c.id,
                    outcome |-> IF invalid # <<>> THEN "invalid" ELSE "ok",
                    before |-> None, db_before |-> benchmark_db,
                    arg |-> <<c>>, errors |-> invalid]
        /\ db_ops' = <<>>
        /\ UNCHANGED <<benchmark_db, stored, runVars, queryVars, eventVars>>

\* The check collections given to validate_check_collection_config
CollectionInputs ==
    { <<c>> : c \in CheckInputs } \cup { <<c, d>> : c, d \in InvalidCheckInputs }

ValidateCheckCollectionConfig ==
    \E cs \in CollectionInputs, digest \in BOOLEAN :
        LET errors == validate_check_collection_config(cs, digest) IN
        /\ call' = [op |-> "validate_check_collection_config", id |-> "",
                    outcome |-> IF errors # <<>> THEN "invalid" ELSE "ok",
                    before |-> None, db_before |-> benchmark_db,
                    arg |-> IF digest THEN cs ELSE <<>>, errors |-> errors]
        /\ db_ops' = <<>>
        /\ UNCHANGED <<benchmark_db, report_check_db, stored, runVars, queryVars, eventVars>>

----------------------------------------------------------------------------
(* The graph *)

Nodes == 1..NumNodes

NoSecurity == [n \in Nodes |-> <<>>]

NoCall == [op |-> "none", id |-> "", outcome |-> "ok", before |-> None,
           db_before |-> EmptyDict, arg |-> <<>>, errors |-> <<>>]

NoArgs == [context |-> CheckContext(None, None, FALSE, DefaultParallelChecks),
           names |-> <<>>, sync |-> FALSE, ignore_checks |-> <<>>,
           report_run_id |-> None]

NoLoad == [pos |-> 0, check_results |-> EmptyDict, result |-> EmptyDict]

RunIdle ==
    /\ pc = "idle"
    /\ args = NoArgs
    /\ checks = <<>>
    /\ task = <<>>
    /\ cursors = {}
    /\ results = EmptyDict
    /\ result = EmptyDict
    /\ security = NoSecurity
    /\ writes = <<>>
    /\ load = NoLoad

NoQuery == [parts |-> <<>>, preamble |-> EmptyDict, aggregate |-> None]

NoQCall == [op |-> "none", n |-> 0, arg |-> <<>>, before |-> NoQuery,
            prev |-> [op |-> "none", arg |-> <<>>, before |-> NoQuery], raised |-> None]

QueryIdle ==
    /\ query = NoQuery
    /\ qcall = NoQCall

\* The event registry: bounds and the state at import
NumCallers == 2
MaxOps == 3

Callers == 1..NumCallers

EventTypes == {"startup", "shutdown"}

\* what the listeners do when they are called
Listeners == {"plain", "unregisters_itself", "unregisters_plain"}
NotCallable == "not_callable"

\* RWLock: any number of readers, or one writer
NoLock == [readers |-> {}, writer |-> {}]

read_access_free(lock) == lock.writer = {}

write_access_free(lock) == lock.writer = {} /\ lock.readers = {}

NoOp == [pc |-> "idle", op |-> "none", event_type |-> "", listener |-> "", blocking |-> FALSE,
         listeners |-> EmptyDict, started |-> <<>>, waiting |-> {}, ret |-> None]

EventIdle ==
    /\ events = EmptyDict
    /\ rwlock = NoLock
    /\ caller = [c \in Callers |-> NoOp]
    /\ threads = <<>>
    /\ begun = 0

----------------------------------------------------------------------------
(* The stores under any sequence of store calls *)

InitStore ==
    /\ benchmark_db = EmptyDict
    /\ report_check_db = EmptyDict
    /\ call = NoCall
    /\ db_ops = <<>>
    /\ stored = {}
    /\ RunIdle
    /\ QueryIdle
    /\ EventIdle

NextStore ==
    \/ DeleteBenchmark
    \/ UpdateBenchmark
    \/ DeleteCheck
    \/ UpdateCheck
    \/ ValidateCheckCollectionConfig

SpecStore == InitStore /\ [][NextStore]_vars


----------------------------------------------------------------------------
(* The graph and its database *)

Accounts == <<"a1", "a2">>

\* value_in_path(node, NodePath.ancestor_account_id): every third node has no
\* account ancestor
NodeAccount(n) == IF n % 3 = 0 THEN None ELSE Some(Accounts[n % 3])

\* The nodes a detection selects, by the id of the check it belongs to
Detects(check, n) ==
    CASE check.id = "c1" -> TRUE
      [] check.id = "c2" -> n <= 2
      [] check.id = "c3" -> n >= 2
      [] OTHER -> FALSE

InAccounts(context, n) ==
    \/ context.accounts = None
    \/ context.accounts[1] = <<>>
    \/ /\ NodeAccount(n) # None
       /\ NodeAccount(n)[1] \in SeqToSet(context.accounts[1])

RECURSIVE NodesWhere(_, _)
NodesWhere(P, n) ==
    IF n > NumNodes THEN <<>>
    ELSE (IF n \in P THEN <<n>> ELSE <<>>) \o NodesWhere(P, n + 1)

\* if context.accounts: the list to filter by, when it is not empty
account_filter(context) ==
    IF context.accounts # None /\ context.accounts[1] # <<>>
    THEN Some(context.accounts[1]) ELSE None

\* perform_search: the query sent to search_list, the parsed detection
\* combined with the account predicate
perform_search_query(check, context) ==
    [detect |-> check, accounts |-> account_filter(context)]

\* perform_cmd: the command sent to the CLI, the detection prefixed with a
\* search for the accounts
perform_cmd_unfiltered(check, context) ==
    [detect |-> check, accounts |-> None]

perform_cmd(check, context) ==
    [detect |-> check, accounts |-> account_filter(context)]

\* The rows the graph delivers for a query or command, in cursor order
query_rows(q) ==
    NodesWhere({n \in Nodes :
                  /\ Detects(q.detect, n)
                  /\ q.accounts # None =>
                        /\ NodeAccount(n) # None
                        /\ NodeAccount(n)[1] \in SeqToSet(q.accounts[1])}, 1)

\* The rows of the detection of a check
search_rows(check, context) ==
    query_rows(IF check.detect = "resoto_cmd" THEN perform_cmd(check, context)
               ELSE perform_search_query(check, context))

\* resources_by_account[account_id].append(...)
add_resource(acc, n) ==
    IF NodeAccount(n) = None THEN acc
    ELSE DictPut(acc, NodeAccount(n)[1], Append(DictGet(acc, NodeAccount(n)[1], <<>>), n))

RECURSIVE add_resources(_, _)
add_resources(acc, rows) ==
    IF rows = <<>> THEN acc ELSE add_resources(add_resource(acc, Head(rows)), Tail(rows))

----------------------------------------------------------------------------
(* Result assembly *)

check_result(check, res) ==
    [check |-> check,
     count_by_account |-> [i \in 1..Len(res) |-> <<res[i][1], Len(res[i][2])>>],
     resources_failing_by_account |-> res]

RECURSIVE check_results_of(_, _, _)
check_results_of(cids, check_by_id, res) ==
    IF cids = <<>> THEN <<>>
    ELSE (IF DictHas(check_by_id, Head(cids))
          THEN << check_result(DictGet(check_by_id, Head(cids), None),
                               DictGet(res, Head(cids), EmptyDict)) >>
          ELSE <<>>) \o check_results_of(Tail(cids), check_by_id, res)

RECURSIVE to_result_cc(_, _, _)
to_result_cc(cc, check_by_id, res) ==
    [title |-> cc.title,
     checks |-> check_results_of(cc.checks, check_by_id, res),
     children |-> [i \in 1..Len(cc.children) |->
                     to_result_cc(cc.children[i], check_by_id, res)]]

number_of_resources_failing(cr) ==
    Len(Concat(DictValues(cr.resources_failing_by_account)))

RECURSIVE filter_result(_, _)
filter_result(ccr, filter_failed) ==
    LET cs == SelectSeq(ccr.checks,
                        LAMBDA cr : ~filter_failed \/ number_of_resources_failing(cr) > 0)
        kids == [i \in 1..Len(ccr.children) |-> filter_result(ccr.children[i], filter_failed)]
    IN [title |-> ccr.title, checks |-> cs,
        children |-> SelectSeq(kids, LAMBDA k : ~filter_failed
                                                 \/ k.checks # <<>> \/ k.children # <<>>)]

to_result(b, check_by_id, res, context) ==
    LET top == filter_result(to_result_cc(b, check_by_id, res), context.only_failed)
    IN [id |-> b.id, title |-> b.title, checks |-> top.checks, children |-> top.children,
        accounts |-> context.accounts, only_failed |-> context.only_failed,
        severity |-> context.severity]

check_lookup(cs) == DictUpdate(EmptyDict, [i \in 1..Len(cs) |-> <<cs[i].id, cs[i]>>])

to_results(benchmarks, cs, res, context) ==
    [i \in 1..Len(benchmarks) |->
        <<benchmarks[i][1], to_result(benchmarks[i][2], check_lookup(cs), res, context)>>]

----------------------------------------------------------------------------
(* perform_benchmarks *)

RECURSIVE SetToSeq(_)
SetToSeq(S) ==
    IF S = {} THEN <<>>
    ELSE LET x == CHOOSE x \in S : TRUE IN <<x>> \o SetToSeq(S \ {x})

\* ReportConfig.check_allowed
check_allowed(ignore_checks, cid) == cid \notin SeqToSet(ignore_checks)

\* the check ids of perform_benchmarks / load_benchmarks
check_ids_of_unfiltered(benchmarks, ignore_checks) ==
    UNION {nested_checks(benchmarks[i][2]) : i \in 1..Len(benchmarks)}

check_ids_of(benchmarks, ignore_checks) ==
    {cid \in UNION {nested_checks(benchmarks[i][2]) : i \in 1..Len(benchmarks)} :
        check_allowed(ignore_checks, cid)}

checks_of(names, context, ignore_checks) ==
    list_checks(CheckFilter(None, None, None, None,
        Some(SetToSeq(check_ids_of(resolve_benchmarks(names), ignore_checks))),
        Some(context), None))

NewTask == [phase |-> "pending", pos |-> 0, acc |-> EmptyDict, outcome |-> "none"]

InFlightPhases == {"parse", "open", "stream", "exec", "empty"}

InFlight == {i \in 1..Len(task) : task[i].phase \in InFlightPhases}

\* pipe.map(perform_single, ordered=False, task_limit=context.parallel_checks)
task_limit_off == TRUE

task_limit_ok == Cardinality(InFlight) < args.context.parallel_checks

\* async with ... search_list(...) as cursor: the exit of the scope
exit_cursor_leak(c) == cursors

exit_cursor(c) == cursors \ {c}

\* {key: value async for key, value in streamer}
collect_in_list_order(res, key, value) ==
    Append(res, <<checks[Len(res) + 1].id, value>>)

collect(res, key, value) == DictPut(res, key, value)

NamesInputs == { <<"b1">>, <<"b1", "b2">> }
AccountsInputs == { None, Some(<<"a1">>), Some(<<"zz">>) }
ListAccountsInputs == AccountsInputs \cup { Some(<<>>), Some(<<"a2", "a1">>) }
SeverityInputs == { None, Some("medium") }
IgnoreInputs == { <<>>, <<"c2">> }
ParallelInputs == { 1, 2, DefaultParallelChecks }
RunIdInputs == { None, Some("r1") }

PerformBenchmarks ==
    /\ pc = "idle"
    /\ \E names \in NamesInputs, accounts \in AccountsInputs, severity \in SeverityInputs,
          only_failing \in BOOLEAN, sync \in BOOLEAN, ignore \in IgnoreInputs,
          parallel \in ParallelInputs, report_run_id \in RunIdInputs :
          LET context == CheckContext(accounts, severity, only_failing, parallel)
              cs == checks_of(names, context, ignore)
          IN /\ args' = [context |-> context, names |-> names, sync |-> sync,
                         ignore_checks |-> ignore, report_run_id |-> report_run_id]
             /\ checks' = cs
             /\ task' = [i \in 1..Len(cs) |-> NewTask]
    /\ pc' = "checks"
    /\ UNCHANGED <<storeVars, queryVars, eventVars, cursors, results, result, security, writes, load>>

\* The task of check i ends: perform_single returns and the consumer of the
\* stream stores its result.
Finish(i, acc, outcome) ==
    /\ task' = [task EXCEPT ![i] = [phase |-> "done", pos |-> @.pos, acc |-> acc,
                                    outcome |-> outcome]]
    /\ results' = collect(results, checks[i].id, acc)

\* An exception leaves the task of check i and reaches the consumer
Propagate(i) ==
    /\ task' = [task EXCEPT ![i].phase = "failed"]
    /\ pc' = "raising"
    /\ UNCHANGED results

StartCheck(i) ==
    /\ pc = "checks"
    /\ task[i].phase = "pending"
    /\ \A j \in 1..(i - 1) : task[j].phase # "pending"
    /\ task_limit_ok
    /\ task' = [task EXCEPT ![i].phase =
                  CASE checks[i].detect = "resoto" -> "parse"
                    [] checks[i].detect = "resoto_cmd" -> "exec"
                    [] OTHER -> "empty"]
    /\ UNCHANGED <<storeVars, queryVars, eventVars, pc, args, checks, cursors, results, result, security, writes, load>>

\* perform_search: template_expander.parse_query, outside the try block
ParseQuery(i) ==
    /\ pc = "checks"
    /\ task[i].phase = "parse"
    /\ \E ok \in BOOLEAN :
          IF ok THEN /\ task' = [task EXCEPT ![i].phase = "open"]
                     /\ UNCHANGED <<pc, results>>
          ELSE Propagate(i)
    /\ UNCHANGED <<storeVars, queryVars, eventVars, args, checks, cursors, result, security, writes, load>>

\* perform_search: search_list inside the try block
OpenCursor(i) ==
    /\ pc = "checks"
    /\ task[i].phase = "open"
    /\ \E ok \in BOOLEAN :
          IF ok THEN /\ task' = [task EXCEPT ![i].phase = "stream"]
                     /\ cursors' = cursors \cup {i}
                     /\ UNCHANGED results
          ELSE /\ Finish(i, task[i].acc, "demoted")
               /\ UNCHANGED cursors
    /\ UNCHANGED <<storeVars, queryVars, eventVars, pc, args, checks, result, security, writes, load>>

\* perform_search / __perform_check: one row of the cursor, or its end
NextRow(i) ==
    /\ pc = "checks"
    /\ task[i].phase = "stream"
    /\ LET rows == search_rows(checks[i], args.context) IN
          IF task[i].pos < Len(rows)
          THEN /\ task' = [task EXCEPT ![i].pos = @ + 1,
                                       ![i].acc = add_resource(@, rows[task[i].pos + 1])]
               /\ UNCHANGED <<cursors, results>>
          ELSE /\ Finish(i, task[i].acc, "ok")
               /\ cursors' = exit_cursor(i)
    /\ UNCHANGED <<storeVars, queryVars, eventVars, pc, args, checks, result, security, writes, load>>

\* perform_search: the cursor fails while a row is fetched
CursorError(i) ==
    /\ pc = "checks"
    /\ task[i].phase = "stream"
    /\ Finish(i, task[i].acc, "demoted")
    /\ cursors' = exit_cursor(i)
    /\ UNCHANGED <<storeVars, queryVars, eventVars, pc, args, checks, result, security, writes, load>>

\* perform_cmd: cli.execute_cli_command, outside the try block, then the rows
\* of the list it returned
ExecuteCliCommand(i) ==
    /\ pc = "checks"
    /\ task[i].phase = "exec"
    /\ \E ok \in BOOLEAN :
          IF ok THEN /\ Finish(i, add_resources(EmptyDict, search_rows(checks[i], args.context)),
                               "ok")
                     /\ UNCHANGED pc
          ELSE Propagate(i)
    /\ UNCHANGED <<storeVars, queryVars, eventVars, args, checks, cursors, result, security, writes, load>>

\* empty(): a manual check
EmptyDetect(i) ==
    /\ pc = "checks"
    /\ task[i].phase = "empty"
    /\ Finish(i, EmptyDict, "ok")
    /\ UNCHANGED <<storeVars, queryVars, eventVars, pc, args, checks, cursors, result, security, writes, load>>

\* The caller cancels the perform_benchmarks call
Cancel ==
    /\ pc \in {"checks", "sync"}
    /\ pc' = "cancelling"
    /\ UNCHANGED <<storeVars, queryVars, eventVars, args, checks, task, cursors, results, result, security, writes, load>>

\* The stream is closed on the way out: every task in flight is cancelled
CancelTask(i) ==
    /\ pc \in {"raising", "cancelling"}
    /\ i \in InFlight
    /\ task' = [task EXCEPT ![i].phase = "cancelled"]
    /\ cursors' = IF task[i].phase = "stream" THEN exit_cursor(i) ELSE cursors
    /\ UNCHANGED <<storeVars, queryVars, eventVars, pc, args, checks, results, result, security, writes, load>>

Unwound ==
    /\ pc \in {"raising", "cancelling"}
    /\ InFlight = {}
    /\ pc' = IF pc = "raising" THEN "raised" ELSE "cancelled"
    /\ UNCHANGED <<storeVars, queryVars, eventVars, args, checks, task, cursors, results, result, security, writes, load>>

\* perform_benchmarks after __perform_checks returned
Assemble ==
    /\ pc = "checks"
    /\ \A i \in 1..Len(task) : task[i].phase = "done"
    /\ result' = to_results(resolve_benchmarks(args.names), checks, results, args.context)
    /\ pc' = IF args.sync THEN "sync" ELSE "done"
    /\ UNCHANGED <<storeVars, queryVars, eventVars, args, checks, task, cursors, results, security, writes, load>>

----------------------------------------------------------------------------
(* Materialisation of the findings and load_benchmarks *)

\* d[k].append(v) for every <<k, v>> of items, d a defaultdict(list)
RECURSIVE append_all(_, _)
append_all(d, items) ==
    IF items = <<>> THEN d
    ELSE append_all(DictPut(d, items[1][1], Append(DictGet(d, items[1][1], <<>>), items[1][2])),
                    Tail(items))

walk_check(cr, parent_id) ==
    LET nodes == Concat(DictValues(cr.resources_failing_by_account))
    IN [i \in 1..Len(nodes) |-> <<nodes[i], [bench |-> parent_id, check |-> cr.check]>>]

RECURSIVE walk_collection(_, _)
walk_collection(coll, parent_id) ==
    Concat([i \in 1..Len(coll.checks) |-> walk_check(coll.checks[i], parent_id)])
      \o Concat([i \in 1..Len(coll.children) |-> walk_collection(coll.children[i], parent_id)])

SecurityIssue(c) ==
    [check |-> c.check.id, severity |-> c.check.severity, benchmarks |-> {c.bench}]

\* __benchmarks_to_security_iterator: the stream of <<node_id, issues>>
benchmarks_to_security_iterator(res) ==
    LET node_result ==
            append_all(EmptyDict,
                Concat([i \in 1..Len(res) |-> walk_collection(res[i][2], res[i][2].id)]))
    IN [i \in 1..Len(node_result) |->
          <<node_result[i][1],
            [j \in 1..Len(node_result[i][2]) |-> SecurityIssue(node_result[i][2][j])]>>]

\* GraphDB.update_security_section: the issues streamed for a node become its
\* security.issues, every other node has none
update_security_section(stream) ==
    [n \in Nodes |-> DictGet(stream, n, <<>>)]

\* uuid_str(): an id no caller supplies
FreshIds == {"uuid1"}

\* run_id = report_run_id or uuid_str()
run_id_fresh(report_run_id, fresh) == fresh

run_id(report_run_id, fresh) ==
    IF report_run_id # None /\ report_run_id[1] # "" THEN report_run_id[1] ELSE fresh

UpdateSecuritySection ==
    /\ pc = "sync"
    /\ security' = update_security_section(benchmarks_to_security_iterator(result))
    /\ \E fresh \in FreshIds :
          writes' = Append(writes, [run_id |-> run_id(args.report_run_id, fresh),
                                    accounts |-> args.context.accounts])
    /\ pc' = "done"
    /\ UNCHANGED <<storeVars, queryVars, eventVars, args, checks, task, cursors, results, result, load>>

severities_including(context, severity) ==
    SelectSeq(ReportSeverity, LAMBDA s : includes_severity(context, severity))

\* the term of load_benchmarks on one element of security.issues
issue_matches(issue, names, context) ==
    /\ issue.benchmarks \cap SeqToSet(names) # {}
    /\ context.severity # None
       => issue.severity \in SeqToSet(severities_including(context, context.severity[1]))

\* the rows of the query of load_benchmarks, in cursor order
load_rows(names, context) ==
    NodesWhere({n \in Nodes :
                  /\ \E k \in 1..Len(security[n]) : issue_matches(security[n][k], names, context)
                  /\ InAccounts(context, n)
                  /\ security[n] # <<>>}, 1)

\* check_results[check][account_id].append(mapped) for every issue of the entry
RECURSIVE load_entry(_, _, _)
load_entry(check_results, n, issues) ==
    IF issues = <<>> \/ NodeAccount(n) = None THEN check_results
    ELSE load_entry(
            DictPut(check_results, issues[1].check,
                    add_resource(DictGet(check_results, issues[1].check, EmptyDict), n)),
            n, Tail(issues))

LoadCursor == 0

LoadBenchmarks ==
    /\ pc = "done"
    /\ args.sync
    /\ \E ok \in BOOLEAN :
          IF ok THEN /\ pc' = "loading"
                     /\ cursors' = cursors \cup {LoadCursor}
          ELSE /\ pc' = "load_raised"
               /\ UNCHANGED cursors
    /\ load' = NoLoad
    /\ UNCHANGED <<storeVars, queryVars, eventVars, args, checks, task, results, result, security, writes>>

LoadNextEntry ==
    /\ pc = "loading"
    /\ LET rows == load_rows(args.names, args.context) IN
          IF load.pos < Len(rows)
          THEN /\ load' = [load EXCEPT
                             !.pos = @ + 1,
                             !.check_results =
                                 load_entry(@, rows[load.pos + 1], security[rows[load.pos + 1]])]
               /\ UNCHANGED <<pc, cursors>>
          ELSE /\ load' = [load EXCEPT !.result =
                             to_results(resolve_benchmarks(args.names),
                                        checks_of(args.names, args.context, args.ignore_checks),
                                        load.check_results, args.context)]
               /\ cursors' = exit_cursor(LoadCursor)
               /\ pc' = "loaded"
    /\ UNCHANGED <<storeVars, queryVars, eventVars, args, checks, task, results, result, security, writes>>

\* the cursor fails, or the caller cancels load_benchmarks: the exception
\* leaves the scope of the cursor
LoadAborted ==
    /\ pc = "loading"
    /\ \E how \in {"load_raised", "load_cancelled"} : pc' = how
    /\ cursors' = exit_cursor(LoadCursor)
    /\ UNCHANGED <<storeVars, queryVars, eventVars, args, checks, task, results, result, security, writes, load>>

----------------------------------------------------------------------------
(* list_failing_resources: the caller iterates over the returned generator; *)
(* task[1].acc holds the rows it has received                               *)

CheckUidInputs == {"c1", "c2", "c3", "cX"}

ListFailingResources ==
    /\ pc = "idle"
    /\ \E check_uid \in CheckUidInputs, accounts \in ListAccountsInputs :
          LET context == CheckContext(accounts, None, FALSE, DefaultParallelChecks)
              cs == list_checks(CheckFilter(None, None, None, None, Some(<<check_uid>>),
                                            Some(context), None))
          IN /\ args' = [context |-> context, names |-> <<>>, sync |-> FALSE,
                         ignore_checks |-> <<>>, report_run_id |-> None]
             /\ IF cs = <<>>
                THEN /\ pc' = "not_found"
                     /\ UNCHANGED <<checks, task>>
                ELSE /\ pc' = "listing"
                     /\ checks' = <<cs[1]>>
                     /\ task' = << [NewTask EXCEPT !.phase =
                                      CASE cs[1].detect = "resoto" -> "parse"
                                        [] cs[1].detect = "resoto_cmd" -> "exec"
                                        [] OTHER -> "empty"] >>
    /\ UNCHANGED <<storeVars, queryVars, eventVars, cursors, results, result, security, writes, load>>

ListEnd(acc, outcome, how) ==
    /\ task' = << [phase |-> "done", pos |-> task[1].pos, acc |-> acc, outcome |-> outcome] >>
    /\ pc' = how

ListParseQuery ==
    /\ pc = "listing"
    /\ task[1].phase = "parse"
    /\ \E ok \in BOOLEAN :
          IF ok THEN /\ task' = [task EXCEPT ![1].phase = "open"]
                     /\ UNCHANGED pc
          ELSE ListEnd(task[1].acc, "raised", "list_raised")
    /\ UNCHANGED <<storeVars, queryVars, eventVars, args, checks, cursors, results, result, security, writes, load>>

ListOpenCursor ==
    /\ pc = "listing"
    /\ task[1].phase = "open"
    /\ \E ok \in BOOLEAN :
          IF ok THEN /\ task' = [task EXCEPT ![1].phase = "stream"]
                     /\ cursors' = cursors \cup {1}
                     /\ UNCHANGED pc
          ELSE /\ ListEnd(task[1].acc, "demoted", "listed")
               /\ UNCHANGED cursors
    /\ UNCHANGED <<storeVars, queryVars, eventVars, args, checks, results, result, security, writes, load>>

ListNextRow ==
    /\ pc = "listing"
    /\ task[1].phase = "stream"
    /\ LET rows == search_rows(checks[1], args.context) IN
          IF task[1].pos < Len(rows)
          THEN /\ task' = [task EXCEPT ![1].pos = @ + 1,
                                       ![1].acc = Append(@, rows[task[1].pos + 1])]
               /\ UNCHANGED <<pc, cursors>>
          ELSE /\ ListEnd(task[1].acc, "ok", "listed")
               /\ cursors' = exit_cursor(1)
    /\ UNCHANGED <<storeVars, queryVars, eventVars, args, checks, results, result, security, writes, load>>

ListCursorError ==
    /\ pc = "listing"
    /\ task[1].phase = "stream"
    /\ ListEnd(task[1].acc, "demoted", "listed")
    /\ cursors' = exit_cursor(1)
    /\ UNCHANGED <<storeVars, queryVars, eventVars, args, checks, results, result, security, writes, load>>

ListExecuteCliCommand ==
    /\ pc = "listing"
    /\ task[1].phase = "exec"
    /\ \E ok \in BOOLEAN :
          IF ok THEN ListEnd(search_rows(checks[1], args.context), "ok", "listed")
          ELSE ListEnd(task[1].acc, "raised", "list_raised")
    /\ UNCHANGED <<storeVars, queryVars, eventVars, args, checks, cursors, results, result, security, writes, load>>

ListEmptyDetect ==
    /\ pc = "listing"
    /\ task[1].phase = "empty"
    /\ ListEnd(<<>>, "ok", "listed")
    /\ UNCHANGED <<storeVars, queryVars, eventVars, args, checks, cursors, results, result, security, writes, load>>

\* the caller is cancelled while it waits for the next row
ListCancel ==
    /\ pc = "listing"
    /\ task[1].phase \in InFlightPhases
    /\ task' = [task EXCEPT ![1].phase = "cancelled"]
    /\ cursors' = IF task[1].phase = "stream" THEN exit_cursor(1) ELSE cursors
    /\ pc' = "list_cancelled"
    /\ UNCHANGED <<storeVars, queryVars, eventVars, args, checks, results, result, security, writes, load>>

----------------------------------------------------------------------------
(* One perform_benchmarks call followed by a load_benchmarks call, or one *)
(* list_failing_resources call                                           *)

Init ==
    /\ benchmark_db = << <<"b2", Benchmark("b2", <<"c1">>, <<>>, "user")>> >>
    /\ report_check_db \in { EmptyDict,
                             << <<"c3", UserCheck("c3", "critical", "manual", "gcp", {"k1"})>> >> }
    /\ call = NoCall
    /\ db_ops = <<>>
    /\ stored = SeqToSet(DictValues(benchmark_db))
    /\ RunIdle
    /\ QueryIdle
    /\ EventIdle

Next ==
    \/ PerformBenchmarks
    \/ \E i \in 1..Len(task) : StartCheck(i)
    \/ \E i \in 1..Len(task) : ParseQuery(i)
    \/ \E i \in 1..Len(task) : OpenCursor(i)
    \/ \E i \in 1..Len(task) : NextRow(i)
    \/ \E i \in 1..Len(task) : CursorError(i)
    \/ \E i \in 1..Len(task) : ExecuteCliCommand(i)
    \/ \E i \in 1..Len(task) : EmptyDetect(i)
    \/ Cancel
    \/ \E i \in 1..Len(task) : CancelTask(i)
    \/ Unwound
    \/ Assemble
    \/ UpdateSecuritySection
    \/ LoadBenchmarks
    \/ LoadNextEntry
    \/ LoadAborted
    \/ ListFailingResources
    \/ ListParseQuery
    \/ ListOpenCursor
    \/ ListNextRow
    \/ ListCursorError
    \/ ListExecuteCliCommand
    \/ ListEmptyDetect
    \/ ListCancel

Spec == Init /\ [][Next]_vars

----------------------------------------------------------------------------
(* The query model (core/query/model.py).  A variable name is the sequence *)
(* of its tokens: "reported.x" is <<"reported", ".", "x">>, "/x" is        *)
(* <<"/", "x">>.                                                           *)

PathRoot == <<"/">>

Dot == <<".">>

\* str.startswith
startswith(name, prefix) ==
    Len(name) >= Len(prefix) /\ SubSeq(name, 1, Len(prefix)) = prefix

\* name[n:]
drop(name, n) == SubSeq(name, n + 1, Len(name))

\* section: None or Some(name)
variable_to_absolute(section, name) ==
    IF startswith(name, PathRoot) THEN drop(name, 1)
    ELSE IF section # None /\ section[1] # <<>> /\ section[1] # PathRoot
         THEN section[1] \o Dot \o name
         ELSE name

variable_to_relative_keep(section, name) ==
    IF startswith(name, PathRoot) THEN name
    ELSE IF startswith(name, section \o Dot) THEN name
         ELSE PathRoot \o name

variable_to_relative(section, name) ==
    IF startswith(name, PathRoot) THEN name
    ELSE IF startswith(name, section \o Dot) THEN drop(name, Len(section) + 1)
         ELSE PathRoot \o name

\* The functions handed to change_variable: partial(variable_to_absolute, s)
\* and partial(variable_to_relative, s)
ToAbsolute(section) == [fn |-> "absolute", section |-> section]

ToRelative(section) == [fn |-> "relative", section |-> Some(section)]

apply_fn(fn, name) ==
    IF fn.fn = "absolute" THEN variable_to_absolute(fn.section, name)
    ELSE variable_to_relative(fn.section[1], name)

(* Terms *)

AllTerm == [type |-> "AllTerm"]

NotTerm(term) == [type |-> "NotTerm", term |-> term]

Predicate(name, op, value) ==
    [type |-> "Predicate", name |-> name, op |-> op, value |-> value]

CombinedTerm(left, op, right) ==
    [type |-> "CombinedTerm", left |-> left, op |-> op, right |-> right]

IdTerm(id) == [type |-> "IdTerm", id |-> id]

IsTerm(kinds) == [type |-> "IsTerm", kinds |-> kinds]

FunctionTerm(fn, property_path, fargs) ==
    [type |-> "FunctionTerm", fn |-> fn, property_path |-> property_path, args |-> fargs]

MergeQuery(name, q, only_first) ==
    [name |-> name, query |-> q, only_first |-> only_first]

\* post_filter: None or Some(term)
MergeTerm(pre_filter, merge, post_filter) ==
    [type |-> "MergeTerm", pre_filter |-> pre_filter, merge |-> merge,
     post_filter |-> post_filter]

isinstance(term, type) == term.type = type

or_term(self, other) ==
    IF isinstance(self, "AllTerm") THEN self
    ELSE IF isinstance(other, "AllTerm") THEN other
    ELSE CombinedTerm(self, "or", other)

and_term_keep_all(self, other) == CombinedTerm(self, "and", other)

and_term(self, other) ==
    IF isinstance(self, "AllTerm") THEN other
    ELSE IF isinstance(other, "AllTerm") THEN self
    ELSE CombinedTerm(self, "and", other)

(* Navigation, with clause, sort, part, query *)

NavigationMax == 10000

EdgeTypeDefault == "default"

Navigation(start, until, edge_type, direction) ==
    [start |-> start, until |-> until, edge_type |-> edge_type, direction |-> direction]

WithClauseFilter(op, num) == [op |-> op, num |-> num]

\* term, with_clause: None or Some(...)
WithClause(with_filter, navigation, term, with_clause) ==
    [with_filter |-> with_filter, navigation |-> navigation, term |-> term,
     with_clause |-> with_clause]

Sort(name, order) == [name |-> name, order |-> order]

\* tag, with_clause, limit, navigation: None or Some(...)
Part(term, tag, with_clause, sort, limit, navigation) ==
    [term |-> term, tag |-> tag, with_clause |-> with_clause, sort |-> sort,
     limit |-> limit, navigation |-> navigation]

\* Part(term) with the defaults of the dataclass
PartOf(term) == Part(term, None, None, <<>>, None, None)

Query(parts, preamble, aggregate) ==
    [parts |-> parts, preamble |-> preamble, aggregate |-> aggregate]

(* change_variable *)

RECURSIVE term_change_variable(_, _)
RECURSIVE query_change_variable(_, _)

term_change_variable(term, fn) ==
    CASE isinstance(term, "CombinedTerm") ->
            CombinedTerm(term_change_variable(term.left, fn), term.op,
                         term_change_variable(term.right, fn))
      [] isinstance(term, "Predicate") ->
            Predicate(apply_fn(fn, term.name), term.op, term.value)
      [] isinstance(term, "FunctionTerm") ->
            FunctionTerm(term.fn, apply_fn(fn, term.property_path), term.args)
      [] isinstance(term, "MergeTerm") ->
            MergeTerm(term_change_variable(term.pre_filter, fn),
                      [i \in 1..Len(term.merge) |->
                          [term.merge[i] EXCEPT !.query = query_change_variable(@, fn)]],
                      IF term.post_filter # None
                      THEN Some(term_change_variable(term.post_filter[1], fn)) ELSE None)
      [] isinstance(term, "NotTerm") ->
            NotTerm(term_change_variable(term.term, fn))
      [] OTHER -> term

RECURSIVE with_clause_change_variable(_, _)
with_clause_change_variable(clause, fn) ==
    [clause EXCEPT
       !.term = IF @ # None THEN Some(term_change_variable(@[1], fn)) ELSE None,
       !.with_clause = IF @ # None THEN Some(with_clause_change_variable(@[1], fn))
                       ELSE None]

part_change_variable(part, fn) ==
    [part EXCEPT
       !.term = term_change_variable(@, fn),
       !.with_clause = IF @ # None THEN Some(with_clause_change_variable(@[1], fn))
                       ELSE None,
       !.sort = [i \in 1..Len(@) |-> Sort(apply_fn(fn, @[i].name), @[i].order)]]

\* Aggregate: group_by is a list of [name, as_name], group_func a list of
\* [function, name, as_name]
aggregate_change_variable(aggregate, fn) ==
    [group_by |-> [i \in 1..Len(aggregate.group_by) |->
                     [aggregate.group_by[i] EXCEPT !.name = apply_fn(fn, @)]],
     group_func |-> [i \in 1..Len(aggregate.group_func) |->
                     [aggregate.group_func[i] EXCEPT !.name = apply_fn(fn, @)]]]

query_change_variable(q, fn) ==
    Query([i \in 1..Len(q.parts) |-> part_change_variable(q.parts[i], fn)],
          q.preamble,
          IF q.aggregate # None THEN Some(aggregate_change_variable(q.aggregate[1], fn))
          ELSE None)

on_section(q, section) ==
    LET root_or_section == IF section = None \/ section[1] = PathRoot THEN None
                           ELSE section
    IN query_change_variable(q, ToAbsolute(root_or_section))

relative_to_section(q, section) ==
    IF section # PathRoot THEN query_change_variable(q, ToRelative(section)) ELSE q

Min(a, b) == IF a <= b THEN a ELSE b

(* The fluent interface of Query *)

\* mk_term: a string stands for the kind of that name
make_term(t) == IF t.type = "str" THEN IsTerm(<<t.value>>) ELSE t

RECURSIVE reduce_and(_, _)
reduce_and(acc, terms) ==
    IF terms = <<>> THEN acc
    ELSE reduce_and(CombinedTerm(acc, "and", make_term(Head(terms))), Tail(terms))

mk_term(terms) == reduce_and(make_term(Head(terms)), Tail(terms))

by(terms, preamble) == Query(<<PartOf(mk_term(terms))>>, preamble, None)

filter(q, terms) ==
    LET res == mk_term(terms)
        first == q.parts[1]
    IN IF first.navigation = None
       THEN [q EXCEPT !.parts[1] = PartOf(CombinedTerm(first.term, "and", res))]
       ELSE [q EXCEPT !.parts = <<PartOf(res)>> \o @]

traverse_replace(q, start, until, edge_type, direction) ==
    [q EXCEPT !.parts[1].navigation = Some(Navigation(start, until, edge_type, direction))]

traverse(q, start, until, edge_type, direction) ==
    LET p0 == q.parts[1] IN
    IF p0.navigation # None
    THEN IF p0.navigation[1].edge_type = edge_type /\ p0.navigation[1].direction = direction
         THEN [q EXCEPT !.parts[1].navigation =
                  Some(Navigation(Min(NavigationMax, start + p0.navigation[1].start),
                                  Min(NavigationMax, until + p0.navigation[1].until),
                                  edge_type, direction))]
         ELSE [q EXCEPT !.parts =
                  <<Part(AllTerm, None, None, <<>>, None,
                         Some(Navigation(start, until, edge_type, direction)))>> \o @]
    ELSE [q EXCEPT !.parts[1].navigation = Some(Navigation(start, until, edge_type, direction))]

\* the lambdas handed to __change_current_part
change_part(p, change) ==
    CASE change.attr = "sort" -> [p EXCEPT !.sort = Append(@, change.value)]
      [] change.attr = "limit" -> [p EXCEPT !.limit = Some(change.value)]
      [] change.attr = "tag" -> [p EXCEPT !.tag = Some(change.value)]

change_current_part(q, change) ==
    IF q.parts[1].navigation # None
    THEN [q EXCEPT !.parts = <<change_part(PartOf(AllTerm), change)>> \o @]
    ELSE [q EXCEPT !.parts[1] = change_part(@, change)]

add_sort(q, name, order) == change_current_part(q, [attr |-> "sort", value |-> Sort(name, order)])

with_limit(q, num) == change_current_part(q, [attr |-> "limit", value |-> num])

tag(q, name) == change_current_part(q, [attr |-> "tag", value |-> name])

(* Query.combine *)

\* core.util.combine_optional on lists and on optional numbers
combine_sort(left, right) ==
    IF left # <<>> /\ right # <<>> THEN left \o right
    ELSE IF left # <<>> THEN left ELSE right

limit_set(limit) == limit # None /\ limit[1] # 0

combine_limit(left, right) ==
    IF limit_set(left) /\ limit_set(right) THEN Some(Min(left[1], right[1]))
    ELSE IF limit_set(left) THEN left ELSE right

Raised(error) == [raised |-> Some(error), query |-> NoQuery]

Result(q) == [raised |-> None, query |-> q]

combine_append(self, other) ==
    IF self.aggregate # None /\ other.aggregate # None
    THEN Raised("Can not combine 2 aggregations!")
    ELSE Result(Query(other.parts \o self.parts, DictUpdate(self.preamble, other.preamble),
                      IF self.aggregate # None THEN self.aggregate ELSE other.aggregate))

combine(self, other) ==
    LET preamble == DictUpdate(self.preamble, other.preamble)
        aggregate == IF self.aggregate # None THEN self.aggregate ELSE other.aggregate
        left_last == self.parts[1]
        right_first == other.parts[Len(other.parts)]
        fused == Part(and_term(left_last.term, right_first.term),
                      IF left_last.tag # None THEN left_last.tag ELSE right_first.tag,
                      IF left_last.with_clause # None THEN left_last.with_clause
                      ELSE right_first.with_clause,
                      combine_sort(left_last.sort, right_first.sort),
                      combine_limit(left_last.limit, right_first.limit),
                      right_first.navigation)
    IN IF self.aggregate # None /\ other.aggregate # None
       THEN Raised("Can not combine 2 aggregations!")
       ELSE IF left_last.navigation # None
       THEN Result(Query(other.parts \o self.parts, preamble, aggregate))
       ELSE IF left_last.with_clause # None /\ right_first.with_clause # None
       THEN Raised("Can not combine 2 with clauses!")
       ELSE IF left_last.tag # None /\ right_first.tag # None
       THEN Raised("Can not combine 2 tag clauses!")
       ELSE Result(Query(SubSeq(other.parts, 1, Len(other.parts) - 1)
                             \o <<fused>> \o Tail(self.parts),
                           preamble, aggregate))

(* Part.rewrite_for_ancestors_descendants *)

\* GraphResolver.resolved_property_names: names that are stored with the node
ResolvedPropertyNames ==
    { <<"ancestors", ".", "cloud", ".", "reported", ".", "name">> }

is_ancestor_descendant(name) ==
    /\ name \notin ResolvedPropertyNames
    /\ \/ startswith(name, <<"ancestors", ".">>)
       \/ startswith(name, <<"descendants", ".">>)

RECURSIVE has_ancestor_descendant(_)
has_ancestor_descendant(t) ==
    CASE isinstance(t, "Predicate") /\ is_ancestor_descendant(t.name) -> TRUE
      [] isinstance(t, "CombinedTerm") ->
            has_ancestor_descendant(t.left) \/ has_ancestor_descendant(t.right)
      [] isinstance(t, "MergeTerm") ->
            \/ has_ancestor_descendant(t.pre_filter)
            \/ (t.post_filter # None /\ has_ancestor_descendant(t.post_filter[1]))
      [] isinstance(t, "NotTerm") -> has_ancestor_descendant(t.term)
      [] OTHER -> FALSE

RECURSIVE ancestor_descendant_predicates(_)
ancestor_descendant_predicates(t) ==
    CASE isinstance(t, "Predicate") /\ is_ancestor_descendant(t.name) -> <<t>>
      [] isinstance(t, "CombinedTerm") ->
            ancestor_descendant_predicates(t.left) \o ancestor_descendant_predicates(t.right)
      [] isinstance(t, "MergeTerm") ->
            ancestor_descendant_predicates(t.pre_filter)
              \o (IF t.post_filter # None
                  THEN ancestor_descendant_predicates(t.post_filter[1]) ELSE <<>>)
      [] isinstance(t, "NotTerm") -> ancestor_descendant_predicates(t.term)
      [] OTHER -> <<>>

\* walk_term: st holds the nonlocal before_merge and after_merge
RECURSIVE walk_term(_, _)
walk_term(term, st) ==
    CASE isinstance(term, "CombinedTerm") ->
            LET left_has_ad == has_ancestor_descendant(term.left)
                right_has_ad == has_ancestor_descendant(term.right)
            IN IF term.op = "or"
               THEN [st EXCEPT !.after_merge = and_term(@, term)]
               ELSE IF left_has_ad /\ right_has_ad
               THEN walk_term(term.right, walk_term(term.left, st))
               ELSE IF left_has_ad
               THEN walk_term(term.left, [st EXCEPT !.before_merge = and_term(@, term.right)])
               ELSE IF right_has_ad
               THEN walk_term(term.right, [st EXCEPT !.before_merge = and_term(@, term.left)])
               ELSE [st EXCEPT !.raised = Some("NotImplementedError")]
      [] isinstance(term, "MergeTerm") ->
            IF term.post_filter # None
            THEN walk_term(CombinedTerm(term.pre_filter, "and", term.post_filter[1]), st)
            ELSE walk_term(term.pre_filter, st)
      [] OTHER -> [st EXCEPT !.after_merge = and_term(@, term)]

\* str.split(".", 2): the positions of the first two dots
DotPositions(name) == {i \in 1..Len(name) : name[i] = "."}

FirstDot(name) == CHOOSE i \in DotPositions(name) : \A j \in DotPositions(name) : i <= j

SecondDot(name) ==
    CHOOSE i \in DotPositions(name) \ {FirstDot(name)} :
        \A j \in DotPositions(name) \ {FirstDot(name)} : i <= j

\* anc_dec, kind, _ = predicate.name.split(".", 2) unpacks three segments
unpacks(predicate) == Cardinality(DotPositions(predicate.name)) >= 2

name_predicate(predicate) ==
    << SubSeq(predicate.name, 1, FirstDot(predicate.name) - 1),
       SubSeq(predicate.name, FirstDot(predicate.name) + 1, SecondDot(predicate.name) - 1) >>

DirectionInbound == "in"
DirectionOutbound == "out"
DirectionAny == "inout"

merge_query_for(anc_dec, kind) ==
    LET direction == IF anc_dec = <<"ancestors">> THEN DirectionInbound ELSE DirectionOutbound
        navigation == Navigation(1, NavigationMax, EdgeTypeDefault, direction)
        subquery == Query(<< PartOf(IsTerm(<<kind>>)),
                             Part(AllTerm, None, None, <<>>, None, Some(navigation)) >>,
                          EmptyDict, None)
    IN MergeQuery(anc_dec \o Dot \o kind, subquery, TRUE)

\* core.util.group_by: the keys in the order of their first occurrence
RECURSIVE group_keys(_, _)
group_keys(keys, predicates) ==
    IF predicates = <<>> THEN keys
    ELSE LET k == name_predicate(Head(predicates))
         IN group_keys(IF k \in SeqToSet(keys) THEN keys ELSE Append(keys, k),
                       Tail(predicates))

by_name(merge) == DictUpdate(EmptyDict, [i \in 1..Len(merge) |-> <<merge[i].name, merge[i]>>])

PartRaised(error) == [raised |-> Some(error), part |-> PartOf(AllTerm)]

rewrite_keep_term(part) ==
    IF has_ancestor_descendant(part.term)
    THEN LET st == walk_term(part.term, [before_merge |-> AllTerm, after_merge |-> AllTerm,
                                         raised |-> None])
             found == ancestor_descendant_predicates(st.after_merge)
             predicates == group_keys(<<>>, found)
             existing == by_name(IF isinstance(part.term, "MergeTerm") THEN part.term.merge
                                 ELSE <<>>)
             created == by_name([i \in 1..Len(predicates) |->
                                   merge_query_for(predicates[i][1], predicates[i][2])])
             queries == DictValues(DictUpdate(created, existing))
         IN IF st.raised # None THEN PartRaised(st.raised[1])
            ELSE IF \E i \in 1..Len(found) : ~unpacks(found[i]) THEN PartRaised("ValueError")
            ELSE [raised |-> None,
                  part |-> [part EXCEPT !.term =
                              MergeTerm(part.term, queries, Some(st.after_merge))]]
    ELSE [raised |-> None, part |-> part]

rewrite_for_ancestors_descendants(part) ==
    IF has_ancestor_descendant(part.term)
    THEN LET st == walk_term(part.term, [before_merge |-> AllTerm, after_merge |-> AllTerm,
                                         raised |-> None])
             found == ancestor_descendant_predicates(st.after_merge)
             predicates == group_keys(<<>>, found)
             existing == by_name(IF isinstance(part.term, "MergeTerm") THEN part.term.merge
                                 ELSE <<>>)
             created == by_name([i \in 1..Len(predicates) |->
                                   merge_query_for(predicates[i][1], predicates[i][2])])
             queries == DictValues(DictUpdate(created, existing))
         IN IF st.raised # None THEN PartRaised(st.raised[1])
            ELSE IF \E i \in 1..Len(found) : ~unpacks(found[i]) THEN PartRaised("ValueError")
            ELSE [raised |-> None,
                  part |-> [part EXCEPT !.term =
                              MergeTerm(st.before_merge, queries, Some(st.after_merge))]]
    ELSE [raised |-> None, part |-> part]

(* __str__: a rendering is the sequence of its pieces of text *)

\* sep.join(items)
RECURSIVE join(_, _)
join(sep, items) ==
    IF items = <<>> THEN <<>>
    ELSE IF Len(items) = 1 THEN items[1]
    ELSE items[1] \o sep \o join(sep, Tail(items))

Navigation_str(nav) ==
    LET until_str == IF nav.until = NavigationMax THEN <<>> ELSE <<ToString(nav.until)>>
        depth == IF nav.start = nav.until
                 THEN (IF nav.start = 1 THEN <<>> ELSE <<"[", ToString(nav.start), "]">>)
                 ELSE <<"[", ToString(nav.start), ":">> \o until_str \o <<"]">>
        n == IF nav.edge_type = EdgeTypeDefault THEN depth ELSE <<nav.edge_type>> \o depth
    IN CASE nav.direction = DirectionOutbound -> <<"-">> \o n \o <<"->">>
         [] nav.direction = DirectionInbound -> <<"<-">> \o n \o <<"-">>
         [] OTHER -> <<"<-">> \o n \o <<"->">>

WithClauseFilter_str(f) ==
    IF f.op = "==" /\ f.num = 0 THEN <<"empty">>
    ELSE IF f.op = ">" /\ f.num = 0 THEN <<"any">>
    ELSE <<"count", f.op, ToString(f.num)>>

RECURSIVE Term_str(_)
RECURSIVE Query_str(_)

MergeQuery_str(mq) ==
    mq.name \o (IF mq.only_first THEN <<>> ELSE <<"[]">>) \o <<": ">> \o Query_str(mq.query)

Term_str(t) ==
    CASE isinstance(t, "AllTerm") -> <<"all">>
      [] isinstance(t, "NotTerm") -> <<"not(">> \o Term_str(t.term) \o <<")">>
      [] isinstance(t, "Predicate") -> t.name \o <<" ", t.op, " ", t.value>>
      [] isinstance(t, "CombinedTerm") ->
            <<"(">> \o Term_str(t.left) \o <<" ", t.op, " ">> \o Term_str(t.right) \o <<")">>
      [] isinstance(t, "IdTerm") -> <<"id(\"", t.id, "\")">>
      [] isinstance(t, "IsTerm") ->
            LET kind_string == join(<<", ">>, [i \in 1..Len(t.kinds) |->
                                                 <<"\"">> \o t.kinds[i] \o <<"\"">>])
            IN <<"is(">> \o (IF Len(t.kinds) = 1 THEN kind_string
                             ELSE <<"[">> \o kind_string \o <<"]">>) \o <<")">>
      [] isinstance(t, "FunctionTerm") ->
            <<t.fn, "(">> \o t.property_path
              \o (IF t.args # <<>> THEN <<", ">> ELSE <<>>)
              \o join(<<", ">>, [i \in 1..Len(t.args) |-> <<t.args[i]>>]) \o <<")">>
      [] isinstance(t, "MergeTerm") ->
            Term_str(t.pre_filter) \o <<" {">>
              \o join(<<", ">>, [i \in 1..Len(t.merge) |-> MergeQuery_str(t.merge[i])])
              \o <<"}">>
              \o (IF t.post_filter # None THEN <<" ">> \o Term_str(t.post_filter[1]) ELSE <<>>)

RECURSIVE WithClause_str(_)
WithClause_str(c) ==
    <<"with(">> \o WithClauseFilter_str(c.with_filter) \o <<", ">> \o Navigation_str(c.navigation)
      \o (IF c.term # None THEN <<" ">> \o Term_str(c.term[1]) ELSE <<>>)
      \o (IF c.with_clause # None THEN <<" ">> \o WithClause_str(c.with_clause[1]) ELSE <<>>)
      \o <<")">>

Part_str(p) ==
    Term_str(p.term)
      \o (IF p.with_clause # None THEN <<" ">> \o WithClause_str(p.with_clause[1]) ELSE <<>>)
      \o (IF p.tag # None /\ p.tag[1] # "" THEN <<"#", p.tag[1]>> ELSE <<>>)
      \o (IF p.sort # <<>>
          THEN <<" sort ">> \o join(<<",">>, [i \in 1..Len(p.sort) |->
                                               p.sort[i].name \o <<" ", p.sort[i].order>>])
          ELSE <<>>)
      \o (IF limit_set(p.limit) THEN <<" limit ", ToString(p.limit[1])>> ELSE <<>>)
      \o (IF p.navigation # None THEN <<" ">> \o Navigation_str(p.navigation[1]) ELSE <<>>)

Aggregate_str(a) ==
    <<"aggregate(">>
      \o (IF a.group_by # <<>>
          THEN join(<<", ">>, [i \in 1..Len(a.group_by) |->
                     a.group_by[i].name
                       \o (IF a.group_by[i].as_name # None
                           THEN <<" as ", a.group_by[i].as_name[1]>> ELSE <<>>)]) \o <<": ">>
          ELSE <<>>)
      \o join(<<", ">>, [i \in 1..Len(a.group_func) |->
                 <<a.group_func[i].function, "(">> \o a.group_func[i].name \o <<")">>
                   \o (IF a.group_func[i].as_name # None
                       THEN <<" as ", a.group_func[i].as_name[1]>> ELSE <<>>)])
      \o <<")">>

Query_str(q) ==
    (IF q.aggregate # None THEN Aggregate_str(q.aggregate[1]) ELSE <<>>)
      \o (IF q.preamble # EmptyDict
          THEN <<"(">> \o join(<<", ">>, [i \in 1..Len(q.preamble) |->
                                            <<q.preamble[i][1], "=", q.preamble[i][2]>>])
                 \o <<")">>
          ELSE <<>>)
      \o (IF q.preamble # EmptyDict \/ q.aggregate # None THEN <<":">> ELSE <<>>)
      \o join(<<" ">>, [i \in 1..Len(q.parts) |-> Part_str(q.parts[Len(q.parts) + 1 - i])])

----------------------------------------------------------------------------
(* Queries built by a bounded number of calls of the fluent interface *)

MaxCalls == 4

Nx == <<"x">>
Nrx == <<"reported", ".", "x">>
Nsx == <<"/", "x">>
Nanc == <<"ancestors", ".", "account", ".", "reported", ".", "name">>
Nanc2 == <<"ancestors", ".", "account", ".", "reported", ".", "id">>
Ndesc == <<"descendants", ".", "volume", ".", "reported", ".", "size">>
Nres == <<"ancestors", ".", "cloud", ".", "reported", ".", "name">>

Px == Predicate(Nx, "==", "1")
Prx == Predicate(Nrx, ">", "2")
Psx == Predicate(Nsx, "==", "3")
Panc == Predicate(Nanc, "==", "prod")
Panc2 == Predicate(Nanc2, "!=", "7")
Pdesc == Predicate(Ndesc, ">", "8")
Pres == Predicate(Nres, "==", "aws")

\* a predicate on the data merged in by the merge query "owner"
Pown == Predicate(<<"owner", ".", "name">>, "==", "me")

\* a predicate whose name has the magic prefix and two segments only
Pbad == Predicate(<<"ancestors", ".", "account">>, "==", "prod")

StrTerm(kind) == [type |-> "str", value |-> kind]

CustomMerge ==
    << MergeQuery(<<"ancestors", ".", "account">>,
                  Query(<<PartOf(IsTerm(<< <<"account">> >>))>>, EmptyDict, None), FALSE),
       MergeQuery(<<"owner">>,
                  Query(<<PartOf(IsTerm(<< <<"user">> >>))>>, EmptyDict, None), TRUE) >>

\* the terms handed to Query.by and Query.filter, built with P, & and |
TermInputs ==
    { AllTerm, Px, Psx, Pres,
      StrTerm(<<"volume">>),
      and_term(Panc, Px),
      or_term(Panc, Prx),
      and_term(and_term(Px, Panc2), and_term(Pdesc, Panc)),
      NotTerm(Panc),
      MergeTerm(and_term(Panc, Prx), CustomMerge, None),
      MergeTerm(Px, CustomMerge, Some(Pdesc)),
      MergeTerm(and_term(Panc, Prx), CustomMerge, Some(Pown)),
      and_term(Pbad, Px) }

FilterInputs2 == { <<AllTerm>>, <<Px>>, <<Prx, Panc>>, <<or_term(Panc, Prx)>> }

ByInputs == { <<t>> : t \in TermInputs } \cup { <<StrTerm(<<"volume">>), Px>>, <<AllTerm, Prx>> }

\* an until argument above Navigation.Max
OverMax == NavigationMax + 2000

TraverseInputs ==
    { [start |-> 1, until |-> 1, edge_type |-> EdgeTypeDefault, direction |-> DirectionOutbound],
      [start |-> 6000, until |-> NavigationMax, edge_type |-> EdgeTypeDefault,
       direction |-> DirectionOutbound],
      [start |-> 0, until |-> 2, edge_type |-> "delete", direction |-> DirectionOutbound],
      [start |-> 1, until |-> 1, edge_type |-> EdgeTypeDefault, direction |-> DirectionInbound],
      [start |-> 2, until |-> 3, edge_type |-> EdgeTypeDefault, direction |-> DirectionAny],
      [start |-> 2, until |-> OverMax, edge_type |-> EdgeTypeDefault,
       direction |-> DirectionInbound] }

SectionInputs == { <<"reported">>, <<"desired">> }

\* Query.by(AllTerm())
EmptyQuery == by(<<AllTerm>>, EmptyDict)

CombineInputs ==
    { EmptyQuery,
      traverse(by(<<Prx>>, EmptyDict), 1, 1, EdgeTypeDefault, DirectionOutbound),
      with_limit(add_sort(tag(by(<<Px>>, << <<"edges", "true">> >>), "t"), Nrx, "asc"), 5),
      [by(<<Px>>, EmptyDict) EXCEPT
          !.aggregate = Some([group_by |-> << [name |-> Nrx, as_name |-> None] >>,
                              group_func |-> << [function |-> "sum", name |-> Nx,
                                                 as_name |-> None] >>])],
      [by(<<Prx>>, EmptyDict) EXCEPT
          !.parts[1].with_clause =
              Some(WithClause(WithClauseFilter(">", 0),
                              Navigation(1, 1, EdgeTypeDefault, DirectionOutbound),
                              Some(Psx), None))] }

SortInputs == { Sort(Nrx, "desc") }
LimitInputs == { 3 }
TagInputs == { "red" }

PrevOf(c) == [op |-> c.op, arg |-> c.arg, before |-> c.before]

\* One call on the current query: its result replaces the query unless it
\* raised
QCall(op, arg, r) ==
    /\ qcall.n < MaxCalls
    /\ query' = IF r.raised = None THEN r.query ELSE query
    /\ qcall' = [op |-> op, n |-> qcall.n + 1, arg |-> arg, before |-> query,
                 prev |-> PrevOf(qcall), raised |-> r.raised]
    /\ UNCHANGED <<storeVars, runVars, eventVars>>

QueryBy ==
    /\ qcall.op = "none"
    /\ \E terms \in ByInputs : QCall("by", terms, Result(by(terms, EmptyDict)))

QueryFilter ==
    /\ qcall.op # "none"
    /\ \E terms \in FilterInputs2 : QCall("filter", terms, Result(filter(query, terms)))

QueryTraverse ==
    /\ qcall.op # "none"
    /\ \E t \in TraverseInputs :
          QCall("traverse", t, Result(traverse(query, t.start, t.until, t.edge_type, t.direction)))

QueryAddSort ==
    /\ qcall.op # "none"
    /\ \E sort \in SortInputs :
          QCall("add_sort", sort, Result(add_sort(query, sort.name, sort.order)))

QueryWithLimit ==
    /\ qcall.op # "none"
    /\ \E num \in LimitInputs : QCall("with_limit", num, Result(with_limit(query, num)))

QueryTag ==
    /\ qcall.op # "none"
    /\ \E name \in TagInputs : QCall("tag", name, Result(tag(query, name)))

QueryCombine ==
    /\ qcall.op # "none"
    /\ \E other \in CombineInputs : QCall("combine", other, combine(query, other))

QueryOnSection ==
    /\ qcall.op # "none"
    /\ \E section \in SectionInputs :
          QCall("on_section", section, Result(on_section(query, Some(section))))

QueryRelativeToSection ==
    /\ qcall.op # "none"
    /\ \E section \in SectionInputs :
          QCall("relative_to_section", section, Result(relative_to_section(query, section)))

\* The current part is replaced by its rewriting
QueryRewrite ==
    /\ qcall.op # "none"
    /\ LET r == rewrite_for_ancestors_descendants(query.parts[1])
       IN QCall("rewrite", <<>>,
                [raised |-> r.raised, query |-> [query EXCEPT !.parts[1] = r.part]])

NextQuery ==
    \/ QueryBy
    \/ QueryFilter
    \/ QueryTraverse
    \/ QueryAddSort
    \/ QueryWithLimit
    \/ QueryTag
    \/ QueryCombine
    \/ QueryOnSection
    \/ QueryRelativeToSection
    \/ QueryRewrite

SpecQuery == InitStore /\ [][NextQuery]_vars

----------------------------------------------------------------------------------
(* cloudkeeper's event registry (cloudkeeper/event.py)                      *)
(*                                                                          *)
(* _events is a defaultdict(dict): event type -> {listener: info}. Caller   *)
(* threads run add_event_listener, remove_event_listener and dispatch_event *)
(* concurrently; dispatch_event starts one thread per listener, and a       *)
(* listener may call remove_event_listener for itself or for another one.   *)

event_listener_registered(evs, event_type, listener) ==
    DictHas(evs, event_type) /\ DictHas(DictGet(evs, event_type, EmptyDict), listener)

\* _events[event_type] of a defaultdict(dict): a missing key is inserted
\* with an empty dict
getitem(evs, event_type) ==
    IF DictHas(evs, event_type) THEN evs ELSE DictPut(evs, event_type, EmptyDict)

\* the body of add_event_listener under the write lock
add_event_listener(evs, event_type, listener, blocking) ==
    IF ~event_listener_registered(evs, event_type, listener)
    THEN [events |-> DictPut(getitem(evs, event_type), event_type,
                             DictPut(DictGet(evs, event_type, EmptyDict), listener,
                                     [blocking |-> blocking])),
          ret |-> TRUE]
    ELSE [events |-> evs, ret |-> FALSE]

remove_event_listener_keep_entry(evs, event_type, listener) ==
    IF event_listener_registered(evs, event_type, listener)
    THEN [events |-> DictPut(evs, event_type,
                             DictPop(DictGet(evs, event_type, EmptyDict), listener)),
          ret |-> TRUE]
    ELSE [events |-> evs, ret |-> FALSE]

\* the body of remove_event_listener under the write lock
remove_event_listener(evs, event_type, listener) ==
    IF event_listener_registered(evs, event_type, listener)
    THEN LET rest == DictPop(DictGet(evs, event_type, EmptyDict), listener)
         IN [events |-> IF Len(rest) = 0 THEN DictPop(evs, event_type)
                        ELSE DictPut(evs, event_type, rest),
             ret |-> TRUE]
    ELSE [events |-> evs, ret |-> FALSE]

\* the dict the loops of dispatch_event run over
listeners_live(c) == DictGet(events, c.event_type, EmptyDict)

listeners_of(c) == c.listeners

\* the id of the n-th listener thread, as a holder of the lock
ThreadId(n) == NumCallers + n

otherVars == <<storeVars, runVars, queryVars>>

BeginOp(c, op, event_type, listener, blocking, to) ==
    /\ caller[c].pc = "idle"
    /\ begun < MaxOps
    /\ begun' = begun + 1
    /\ caller' = [caller EXCEPT ![c] = [NoOp EXCEPT !.pc = to, !.op = op,
                                                    !.event_type = event_type,
                                                    !.listener = listener,
                                                    !.blocking = blocking]]
    /\ UNCHANGED <<events, rwlock, threads, otherVars>>

\* add_event_listener up to 'with _events_lock.write_access'
AddBegin(c) ==
    \E event_type \in EventTypes, listener \in Listeners \cup {NotCallable} :
       IF listener = NotCallable
       THEN /\ caller[c].pc = "idle"
            /\ begun < MaxOps
            /\ begun' = begun + 1
            /\ caller' = [caller EXCEPT ![c] = [NoOp EXCEPT !.ret = Some(FALSE)]]
            /\ UNCHANGED <<events, rwlock, threads, otherVars>>
       ELSE \E blocking \in BOOLEAN :
               BeginOp(c, "add", event_type, listener, blocking, "write")

\* remove_event_listener up to 'with _events_lock.write_access'
RemoveBegin(c) ==
    \E event_type \in EventTypes, listener \in Listeners :
       BeginOp(c, "remove", event_type, listener, FALSE, "write")

\* the write lock is taken
WriteAccess(c) ==
    /\ caller[c].pc = "write"
    /\ write_access_free(rwlock)
    /\ rwlock' = [rwlock EXCEPT !.writer = {c}]
    /\ caller' = [caller EXCEPT ![c].pc = "locked"]
    /\ UNCHANGED <<events, threads, begun, otherVars>>

\* the body of add_event_listener / remove_event_listener and the release
WriteBody(c) ==
    /\ caller[c].pc = "locked"
    /\ LET r == IF caller[c].op = "add"
                THEN add_event_listener(events, caller[c].event_type, caller[c].listener,
                                        caller[c].blocking)
                ELSE remove_event_listener(events, caller[c].event_type, caller[c].listener)
       IN /\ events' = r.events
          /\ caller' = [caller EXCEPT ![c] = [NoOp EXCEPT !.ret = Some(r.ret)]]
    /\ rwlock' = [rwlock EXCEPT !.writer = {}]
    /\ UNCHANGED <<threads, begun, otherVars>>

\* dispatch_event: 'if event.event_type not in _events.keys(): return',
\* outside the lock
DispatchBegin(c) ==
    \E event_type \in EventTypes, blocking \in BOOLEAN :
       BeginOp(c, "dispatch", event_type, "", blocking,
               IF DictHas(events, event_type) THEN "read" ELSE "idle")

\* the read lock is taken
ReadAccess(c) ==
    /\ caller[c].pc = "read"
    /\ read_access_free(rwlock)
    /\ rwlock' = [rwlock EXCEPT !.readers = @ \cup {c}]
    /\ caller' = [caller EXCEPT ![c].pc = "copy"]
    /\ UNCHANGED <<events, threads, begun, otherVars>>

\* listeners = dict(_events[event.event_type]) and the release of the lock
CopyListeners(c) ==
    /\ caller[c].pc = "copy"
    /\ events' = getitem(events, caller[c].event_type)
    /\ caller' = [caller EXCEPT
                    ![c].pc = "start",
                    ![c].listeners = DictGet(events, caller[c].event_type, EmptyDict)]
    /\ rwlock' = [rwlock EXCEPT !.readers = @ \ {c}]
    /\ UNCHANGED <<threads, begun, otherVars>>

\* one round of 'for listener, listener_info in listeners.items()': the
\* thread of the next listener is started
StartListener(c) ==
    /\ caller[c].pc = "start"
    /\ LET ls == listeners_of(caller[c])
           n == Len(caller[c].started) + 1
       IN IF n <= Len(ls)
          THEN /\ threads' = Append(threads, [listener |-> ls[n][1],
                                              event_type |-> caller[c].event_type,
                                              pc |-> "started"])
               /\ caller' = [caller EXCEPT
                               ![c].started = Append(@, ls[n][1]),
                               ![c].waiting = IF caller[c].blocking \/ ls[n][2].blocking
                                              THEN @ \cup {Len(threads) + 1} ELSE @]
          ELSE /\ caller' = [caller EXCEPT ![c].pc = "join"]
               /\ UNCHANGED threads
    /\ UNCHANGED <<events, rwlock, begun, otherVars>>

\* thread.join(timeout) for the threads waited for: each has finished or
\* its timeout has passed
Join(c) ==
    /\ caller[c].pc = "join"
    /\ \E timed_out \in BOOLEAN :
          timed_out \/ \A n \in caller[c].waiting : threads[n].pc = "finished"
    /\ caller' = [caller EXCEPT ![c] = NoOp]
    /\ UNCHANGED <<events, rwlock, threads, begun, otherVars>>

\* the target of a listener thread
ListenerRun(n) ==
    /\ threads[n].pc = "started"
    /\ threads' = [threads EXCEPT ![n].pc = IF threads[n].listener = "plain" THEN "finished"
                                            ELSE "write"]
    /\ UNCHANGED <<events, rwlock, caller, begun, otherVars>>

ListenerWriteAccess(n) ==
    /\ threads[n].pc = "write"
    /\ write_access_free(rwlock)
    /\ rwlock' = [rwlock EXCEPT !.writer = {ThreadId(n)}]
    /\ threads' = [threads EXCEPT ![n].pc = "locked"]
    /\ UNCHANGED <<events, caller, begun, otherVars>>

\* the listener unregisters itself, or the listener "plain"
ListenerRemove(n) ==
    /\ threads[n].pc = "locked"
    /\ events' = remove_event_listener(
                    events, threads[n].event_type,
                    IF threads[n].listener = "unregisters_itself" THEN threads[n].listener
                    ELSE "plain").events
    /\ threads' = [threads EXCEPT ![n].pc = "finished"]
    /\ rwlock' = [rwlock EXCEPT !.writer = {}]
    /\ UNCHANGED <<caller, begun, otherVars>>

NextEvent ==
    \/ \E c \in Callers : AddBegin(c)
    \/ \E c \in Callers : RemoveBegin(c)
    \/ \E c \in Callers : WriteAccess(c)
    \/ \E c \in Callers : WriteBody(c)
    \/ \E c \in Callers : DispatchBegin(c)
    \/ \E c \in Callers : ReadAccess(c)
    \/ \E c \in Callers : CopyListeners(c)
    \/ \E c \in Callers : StartListener(c)
    \/ \E c \in Callers : Join(c)
    \/ \E n \in 1..Len(threads) : ListenerRun(n)
    \/ \E n \in 1..Len(threads) : ListenerWriteAccess(n)
    \/ \E n \in 1..Len(threads) : ListenerRemove(n)


SpecEvent == InitStore /\ [][NextEvent]_vars

----------------------------------------------------------------------
(* Properties of the stores *)

PredefinedIds == DictKeys(benchmarks_from_file)

\* C7: delete_benchmark and update_benchmark called with the id of a
\* predefined benchmark fail with the denied error, send no operation to the
\* benchmark db and leave its content unchanged, and benchmark(id) still
\* returns the predefined benchmark afterwards.
C7_PredefinedDenied ==
    (call.op \in {"delete_benchmark", "update_benchmark"} /\ call.id \in PredefinedIds)
    => /\ call.outcome = "denied"
       /\ db_ops = <<>>
       /\ benchmark_db = call.db_before
       /\ benchmark(call.id) = call.before
       /\ benchmark(call.id) = Some(DictGet(benchmarks_from_file, call.id, None))

C7_Witness ==
    /\ call.op = "delete_benchmark"
    /\ call.id \in PredefinedIds
    /\ call.outcome = "denied"
    /\ stored # {}

\* C8: after any sequence of update_benchmark and delete_benchmark calls,
\* list_benchmarks() returns every predefined benchmark plus exactly the user
\* benchmarks that were stored and not deleted afterwards, each id once.
C8_ListBenchmarks ==
    /\ SeqToSet(list_benchmarks) = SeqToSet(DictValues(benchmarks_from_file)) \cup stored
    /\ Len(list_benchmarks) = Cardinality(Ids(list_benchmarks))

C8_Witness ==
    /\ call.op = "delete_benchmark"
    /\ call.outcome = "ok"
    /\ call.before # None
    /\ call.id \notin Ids(list_benchmarks)

FilterInputs ==
    { CheckFilter(p, None, None, None, None, c, None) :
        p \in {None, Some("aws"), Some("gcp")},
        c \in {None} \cup { Some(CheckContext(None, Some(ReportSeverity[i]), FALSE,
                                              DefaultParallelChecks)) :
                            i \in 1..Len(ReportSeverity) } }

HighOnly ==
    CheckFilter(None, None, None, None, None,
                Some(CheckContext(None, Some("high"), FALSE, DefaultParallelChecks)), None)

\* C9: user-defined entries override predefined ones by id.  For every
\* content of the benchmark db that holds a benchmark b, benchmark(b.id) and
\* list_benchmarks() return b and list its id once; filter_checks / list_checks
\* return for the id of a user-defined check only that user-defined check, list
\* every id at most once, and leave the id out when the user-defined check does
\* not match the filter.
C9_UserOverrides ==
    /\ \A b \in BenchmarkInputs :
          LET db == DictPut(benchmark_db, b.id, b)
              l == list_benchmarks_in(db)
          IN /\ benchmark_in(db, b.id) = Some(b)
             /\ \A i \in 1..Len(l) : l[i].id = b.id => l[i] = b
             /\ Cardinality({i \in 1..Len(l) : l[i].id = b.id}) = 1
    /\ \A f \in FilterInputs :
          LET l == list_checks(f)
          IN /\ Len(l) = Cardinality(Ids(l))
             /\ \A i \in 1..Len(l) :
                   DictHas(report_check_db, l[i].id)
                   => l[i] = DictGet(report_check_db, l[i].id, None)
             /\ \A c \in SeqToSet(DictValues(report_check_db)) :
                   c.id \in Ids(l) <=> inspection_matches(f, c)

C9_Witness ==
    /\ DictHas(report_check_db, "c1")
    /\ DictHas(checks_from_file, "c1")
    /\ inspection_matches(HighOnly, DictGet(checks_from_file, "c1", None))
    /\ "c1" \notin Ids(list_checks(HighOnly))

----------------------------------------------------------------------------
(* Properties of perform_benchmarks, load_benchmarks, list_failing_resources *)

Started == {i \in 1..Len(task) : task[i].phase # "pending"}

Performing == pc \in {"checks", "raising", "cancelling", "raised", "cancelled",
                      "sync", "done", "loading", "loaded", "load_raised", "load_cancelled"}

\* C1: during __perform_checks the number of check evaluations that have
\* started and not yet finished never exceeds CheckContext.parallel_checks.
C1_ParallelBound == Cardinality(InFlight) <= args.context.parallel_checks

C1_Witness ==
    /\ pc = "checks"
    /\ args.context.parallel_checks = 2
    /\ Cardinality(InFlight) = 2
    /\ \E i \in 1..Len(task) : task[i].phase = "pending"

\* The result of a check whose evaluation is not cut short: all rows of its
\* detection, grouped by account
FullResult(check, context) ==
    IF check.detect \in {"resoto", "resoto_cmd"}
    THEN add_resources(EmptyDict, search_rows(check, context))
    ELSE EmptyDict

AsMap(d) == [k \in DictKeys(d) |-> DictGet(d, k, None)]

\* C2: the result of perform_benchmarks does not depend on the order in which
\* the evaluations complete: the map holds for every check the rows its own
\* evaluation delivered, and when no evaluation was cut short by a cursor
\* error the map and the result tree are the ones computed from the graph
\* alone, whatever the interleaving was.
C2_OrderIndependent ==
    pc \in {"sync", "done"} =>
       LET own == [i \in 1..Len(checks) |-> <<checks[i].id, task[i].acc>>]
           full == [i \in 1..Len(checks) |-> <<checks[i].id, FullResult(checks[i], args.context)>>]
           bs == resolve_benchmarks(args.names)
       IN /\ AsMap(results) = AsMap(own)
          /\ result = to_results(bs, checks, own, args.context)
          /\ (\A i \in 1..Len(task) : task[i].outcome = "ok")
             => /\ AsMap(results) = AsMap(full)
                /\ result = to_results(bs, checks, full, args.context)

C2_Witness ==
    /\ pc = "done"
    /\ Len(results) = 3
    /\ \A i \in 1..Len(task) : task[i].outcome = "ok"
    /\ results[1][1] = checks[3].id
    /\ results[1][2] # EmptyDict
    /\ results[3][1] = checks[1].id
    /\ results[3][2] # EmptyDict

\* C3: a single failing check never aborts the batch: perform_benchmarks
\* never ends by raising the failure of a check evaluation to its caller.
C3_BatchNeverAborts == pc \notin {"raising", "raised"}

Ended == {"done", "raised", "cancelled", "loaded", "load_raised", "load_cancelled",
          "listed", "list_raised", "list_cancelled", "not_found"}

\* C4: every cursor opened through search_list is released on every exit
\* path: a cursor is open only while the scope that opened it is streaming
\* rows, and none is open once the call has ended.
C4_CursorsReleased ==
    /\ pc \in Ended \cup {"sync"} => cursors = {}
    /\ \A c \in cursors :
          IF c = LoadCursor THEN pc = "loading"
          ELSE c \in 1..Len(task) /\ task[c].phase = "stream"

C4_Witness ==
    /\ pc = "cancelled"
    /\ \E i \in 1..Len(task) : task[i].phase = "cancelled" /\ task[i].pos > 0
    /\ \E i \in 1..Len(task) : task[i].phase = "done" /\ task[i].outcome = "demoted"
                                /\ task[i].pos > 0

\* C5: in one perform_benchmarks call every check id is evaluated at most
\* once, also when several benchmarks or several collections reference it, and
\* a check id in ignore_checks is never evaluated.
C5_EvaluatedOnce ==
    Performing =>
       /\ \A i, j \in Started : checks[i].id = checks[j].id => i = j
       /\ \A i \in Started : checks[i].id \notin SeqToSet(args.ignore_checks)

C5_Witness ==
    /\ pc = "done"
    /\ args.names = <<"b1", "b2">>
    /\ args.ignore_checks = <<"c2">>
    /\ \E i \in Started : checks[i].id = "c1"
    /\ \E i \in Started : checks[i].id = "c3"

\* The known checks: the user-defined check of an id, else the predefined one
KnownChecks == SeqToSet(DictValues(checks_from_file)) \cup SeqToSet(DictValues(report_check_db))

EffectiveChecks ==
    {c \in KnownChecks : c.origin = "file" => ~DictHas(report_check_db, c.id)}

RECURSIVE ReportedChecks(_)
ReportedChecks(ccr) ==
    {ccr.checks[i].check : i \in 1..Len(ccr.checks)}
      \cup UNION {ReportedChecks(ccr.children[i]) : i \in 1..Len(ccr.children)}

SeverityContext(sev) == CheckContext(None, sev, FALSE, DefaultParallelChecks)

\* C6: list_checks with a context of severity S returns exactly the known
\* checks of priority >= prio(S), all of them when no severity is given;
\* perform_benchmarks neither evaluates nor reports a check below the threshold.
C6_SeverityGating ==
    /\ \A i \in 1..Len(ReportSeverity) :
          SeqToSet(list_checks(CheckFilter(None, None, None, None, None,
                                           Some(SeverityContext(Some(ReportSeverity[i]))), None)))
            = {c \in EffectiveChecks : Prio(c.severity) >= i}
    /\ SeqToSet(list_checks(CheckFilter(None, None, None, None, None,
                                        Some(SeverityContext(None)), None)))
         = EffectiveChecks
    /\ (Performing /\ args.context.severity # None) =>
          /\ \A i \in Started :
                Prio(checks[i].severity) >= Prio(args.context.severity[1])
          /\ \A k \in 1..Len(result) : \A c \in ReportedChecks(result[k][2]) :
                Prio(c.severity) >= Prio(args.context.severity[1])

C6_Witness ==
    /\ pc = "done"
    /\ args.context.severity = Some("medium")
    /\ args.ignore_checks = <<>>
    /\ Ids(checks) = {"c1", "c3"}
    /\ \E k \in 1..Len(result) : ReportedChecks(result[k][2]) # {}

\* The failing nodes per account of every check of a result tree
RECURSIVE Failing(_)
Failing(ccr) ==
    [title |-> ccr.title,
     checks |-> [i \in 1..Len(ccr.checks) |->
                   [check |-> ccr.checks[i].check.id,
                    count |-> AsMap(ccr.checks[i].count_by_account),
                    nodes |-> AsMap(ccr.checks[i].resources_failing_by_account)]],
     children |-> [i \in 1..Len(ccr.children) |-> Failing(ccr.children[i])]]

\* C10: load_benchmarks after perform_benchmarks(sync_security_section=true),
\* with the same names, accounts and severity, returns for every benchmark,
\* check and account the same failing resources as the perform call returned.
C10_LoadReproducesPerform ==
    pc = "loaded" =>
       /\ DictKeys(load.result) = DictKeys(result)
       /\ \A k \in DictKeys(result) :
             Failing(DictGet(load.result, k, None)) = Failing(DictGet(result, k, None))

Returned == {"done", "loading", "loaded", "load_raised", "load_cancelled"}

RECURSIVE FailingNodes(_)
FailingNodes(ccr) ==
    UNION {SeqToSet(Concat(DictValues(ccr.checks[i].resources_failing_by_account))) :
              i \in 1..Len(ccr.checks)}
      \cup UNION {FailingNodes(ccr.children[i]) : i \in 1..Len(ccr.children)}

IssueTuple(issue) == <<issue.benchmarks, issue.check, issue.severity>>

\* C12: the stream passed to update_security_section yields every node that
\* fails at least one check of the result trees exactly once, and the issues
\* of a node hold every (benchmark id, check id, severity) tuple once, also
\* when a check is referenced by two collections of one benchmark.
C12_IssuesFormSet ==
    pc = "sync" =>
       LET stream == benchmarks_to_security_iterator(result)
       IN /\ DictKeys(stream) = UNION {FailingNodes(result[k][2]) : k \in 1..Len(result)}
          /\ \A i, j \in 1..Len(stream) : stream[i][1] = stream[j][1] => i = j
          /\ \A i \in 1..Len(stream) :
                \A a, b \in 1..Len(stream[i][2]) :
                   IssueTuple(stream[i][2][a]) = IssueTuple(stream[i][2][b]) => a = b

\* The rules a check violates, each named by the error that reports it
ViolatedRules(check) ==
    {e \in {"invalid"} : check.detect \in {"resoto", "resoto_cmd"} /\ ~check.parses}
      \cup {e \in {"no detect"} : check.detect = "none"}
      \cup {e \in {"no result kind"} : check.result_kinds = {}}
      \cup {e \in {"no remediation text"} : ~check.remediation_text}
      \cup {e \in {"no remediation url"} : ~check.remediation_url}
      \cup {e \in {"no title"} : ~check.title}
      \cup {e \in {"no risk"} : ~check.risk}

\* C13: check validation never short-circuits: the error list returned by
\* validate_check_collection_config / update_check holds an error for every
\* rule that a validated check violates, also when the detection of the check
\* does not parse or is manual.
C13_AllViolationsReported ==
    call.op \in {"update_check", "validate_check_collection_config"} =>
       \A i \in 1..Len(call.arg) : ViolatedRules(call.arg[i]) \subseteq SeqToSet(call.errors)

\* The rows a call has delivered to its caller or attributed to a check
DeliveredRows ==
    IF pc \in {"listing", "listed", "list_raised", "list_cancelled"}
    THEN SeqToSet(task[1].acc)
    ELSE UNION {SeqToSet(Concat(DictValues(task[i].acc))) : i \in 1..Len(task)}

InGivenAccounts(n) ==
    /\ NodeAccount(n) # None
    /\ NodeAccount(n)[1] \in SeqToSet(args.context.accounts[1])

\* C14 as stated: whenever an accounts list is given, list_failing_resources
\* and every check evaluation return only resources of the given accounts,
\* for search-based and command-based detections alike.
C14_AccountsGiven ==
    args.context.accounts # None => \A n \in DeliveredRows : InGivenAccounts(n)

\* C14: when a non-empty accounts list is given, list_failing_resources and
\* every check evaluation return only resources whose account is one of the
\* given accounts, for search-based and command-based detections alike, and
\* accounts that match no resource give an empty result; an empty list adds
\* no account predicate.
C14_AccountsFilter ==
    /\ (args.context.accounts # None /\ args.context.accounts[1] # <<>>)
          => \A n \in DeliveredRows : InGivenAccounts(n)
    /\ args.context.accounts = Some(<<"zz">>) => DeliveredRows = {}

C14_Witness ==
    /\ pc = "listed"
    /\ checks[1].detect = "resoto_cmd"
    /\ args.context.accounts = Some(<<"a1">>)
    /\ task[1].outcome = "ok"
    /\ task[1].acc = <<1>>
    /\ \E n \in Nodes \ {1} : Detects(checks[1], n)

----------------------------------------------------------------------------
(* Properties of the query model *)

RECURSIVE HasAllOperand(_)
HasAllOperand(t) ==
    CASE isinstance(t, "CombinedTerm") ->
            \/ isinstance(t.left, "AllTerm") \/ isinstance(t.right, "AllTerm")
            \/ HasAllOperand(t.left) \/ HasAllOperand(t.right)
      [] isinstance(t, "NotTerm") -> HasAllOperand(t.term)
      [] isinstance(t, "MergeTerm") ->
            \/ HasAllOperand(t.pre_filter)
            \/ (t.post_filter # None /\ HasAllOperand(t.post_filter[1]))
      [] OTHER -> FALSE

\* C15: AllTerm is simplified away on construction: AllTerm and t = t and
\* AllTerm = t, AllTerm or t = t or AllTerm = AllTerm, and no term of a query
\* built through the interface holds a CombinedTerm with an AllTerm operand.
C15_AllTermSimplified ==
    /\ \A x \in TermInputs :
          LET t == make_term(x)
          IN /\ and_term(AllTerm, t) = t
             /\ and_term(t, AllTerm) = t
             /\ or_term(AllTerm, t) = AllTerm
             /\ or_term(t, AllTerm) = AllTerm
    /\ \A i \in 1..Len(query.parts) : ~HasAllOperand(query.parts[i].term)

RECURSIVE TermNames(_)
RECURSIVE QueryNames(_)
TermNames(t) ==
    CASE isinstance(t, "Predicate") -> {t.name}
      [] isinstance(t, "FunctionTerm") -> {t.property_path}
      [] isinstance(t, "CombinedTerm") -> TermNames(t.left) \cup TermNames(t.right)
      [] isinstance(t, "NotTerm") -> TermNames(t.term)
      [] isinstance(t, "MergeTerm") ->
            TermNames(t.pre_filter)
              \cup (IF t.post_filter # None THEN TermNames(t.post_filter[1]) ELSE {})
              \cup UNION {QueryNames(t.merge[i].query) : i \in 1..Len(t.merge)}
      [] OTHER -> {}

RECURSIVE WithClauseNames(_)
WithClauseNames(wc) ==
    (IF wc.term # None THEN TermNames(wc.term[1]) ELSE {})
      \cup (IF wc.with_clause # None THEN WithClauseNames(wc.with_clause[1]) ELSE {})

QueryNames(q) ==
    UNION {TermNames(q.parts[i].term)
             \cup {q.parts[i].sort[j].name : j \in 1..Len(q.parts[i].sort)}
             \cup (IF q.parts[i].with_clause # None
                   THEN WithClauseNames(q.parts[i].with_clause[1]) ELSE {})
             : i \in 1..Len(q.parts)}
      \cup (IF q.aggregate = None THEN {}
            ELSE {q.aggregate[1].group_by[i].name : i \in 1..Len(q.aggregate[1].group_by)}
                   \cup {q.aggregate[1].group_func[i].name :
                            i \in 1..Len(q.aggregate[1].group_func)})

\* on_section(s) called on the result of relative_to_section(s)
RoundTrip ==
    /\ qcall.op = "on_section"
    /\ qcall.prev.op = "relative_to_section"
    /\ qcall.prev.arg = qcall.arg

Absolute(names) == \A n \in names : ~startswith(n, PathRoot)

\* C16 as stated: for every non-root section s and every query q, whatever
\* its variable names, q.relative_to_section(s).on_section(s) equals q.
C16_RoundTripAnyName == RoundTrip => query = qcall.prev.before

\* C16: for every non-root section s and every query q whose variable names
\* do not start with a slash, inside the section or not,
\* q.relative_to_section(s).on_section(s) equals q, i.e.
\* variable_to_absolute(s, variable_to_relative(s, n)) = n.
C16_RoundTripAbsolute ==
    /\ (RoundTrip /\ Absolute(QueryNames(qcall.prev.before))) => query = qcall.prev.before
    /\ \A s \in SectionInputs : \A n \in QueryNames(query) :
          ~startswith(n, PathRoot)
          => variable_to_absolute(Some(s), variable_to_relative(s, n)) = n

C16_Witness ==
    /\ RoundTrip
    /\ qcall.arg = <<"reported">>
    /\ {Nrx, Nanc} \subseteq QueryNames(qcall.prev.before)
    /\ Absolute(QueryNames(qcall.prev.before))
    /\ qcall.before # query
    /\ query = qcall.prev.before

C18_RewriteIdempotent ==
    /\ (qcall.op = "rewrite" /\ qcall.prev.op = "rewrite" /\ qcall.raised = None)
       => query = qcall.before
    /\ \A i \in 1..Len(query.parts) :
          LET once == rewrite_for_ancestors_descendants(query.parts[i])
          IN once.raised = None => rewrite_for_ancestors_descendants(once.part) = once

C18_Witness ==
    /\ qcall.op = "rewrite"
    /\ qcall.prev.op = "rewrite"
    /\ qcall.raised = None
    /\ isinstance(qcall.prev.before.parts[1].term, "MergeTerm")
    /\ qcall.prev.before.parts[1].term.merge = CustomMerge
    /\ qcall.prev.before # qcall.before
    /\ isinstance(query.parts[1].term, "MergeTerm")
    /\ Len(query.parts[1].term.merge) = 3
    /\ query.parts[1].term.post_filter = Some(Pdesc)

\* the navigation of a merge sub-query that starts at the node itself
FromSelf(direction) == Navigation(0, NavigationMax, EdgeTypeDefault, direction)

\* {<name>: is(<kind>) <-[0:]- all} resp. {<name>: is(<kind>) -[0:]-> all}
LiftQuery(anc_dec, kind, direction) ==
    MergeQuery(anc_dec \o Dot \o kind,
               Query(<< PartOf(IsTerm(<<kind>>)),
                        Part(AllTerm, None, None, <<>>, None, Some(FromSelf(direction))) >>,
                     EmptyDict, None),
               TRUE)

\* C20: rewriting a part whose term is (ancestors.<kind>.<path> predicate and
\* clean predicate) yields MergeTerm(clean predicate, [MergeQuery named
\* ancestors.<kind>], ancestor predicate) whose sub-query is is(<kind>)
\* reached by an inbound navigation with start 0 and until Max (outbound for
\* descendants), one merge query per distinct (ancestors|descendants, kind)
\* pair; the other attributes of the part are unchanged.
C20_LiftShape ==
    /\ (/\ qcall.op = "rewrite"
        /\ qcall.raised = None
        /\ qcall.before.parts[1].term = and_term(Panc, Px))
       => query = [qcall.before EXCEPT !.parts[1].term =
                     MergeTerm(Px,
                               <<LiftQuery(<<"ancestors">>, <<"account">>, DirectionInbound)>>,
                               Some(Panc))]
    /\ (/\ qcall.op = "rewrite"
        /\ qcall.raised = None
        /\ qcall.before.parts[1].term = and_term(and_term(Px, Panc2), and_term(Pdesc, Panc)))
       => query = [qcall.before EXCEPT !.parts[1].term =
                     MergeTerm(Px,
                               <<LiftQuery(<<"ancestors">>, <<"account">>, DirectionInbound),
                                 LiftQuery(<<"descendants">>, <<"volume">>, DirectionOutbound)>>,
                               Some(and_term(and_term(Panc2, Pdesc), Panc)))]

\* C19 as stated: for every query built by the interface, whether or not its
\* current part carries a navigation, combining it with Query.by(AllTerm())
\* leaves the rendering unchanged.
C19_CombineEmptyAnyPart ==
    (qcall.op = "combine" /\ qcall.arg = EmptyQuery /\ qcall.raised = None)
    => Query_str(query) = Query_str(qcall.before)

\* C19: for every query built by the interface whose current part carries no
\* navigation, combining it with Query.by(AllTerm()) leaves the rendering
\* unchanged; when the current part carries a navigation, the part of the
\* empty query is put in front of it and the rendering gains a trailing "all".
C19_CombineEmpty ==
    (qcall.op = "combine" /\ qcall.arg = EmptyQuery /\ qcall.raised = None)
    => IF qcall.before.parts[1].navigation = None
       THEN Query_str(query) = Query_str(qcall.before)
       ELSE Query_str(query) = Query_str(qcall.before) \o <<" ", "all">>

C19_Witness ==
    /\ qcall.op = "combine"
    /\ qcall.arg = EmptyQuery
    /\ qcall.raised = None
    /\ Len(qcall.before.parts) = 2
    /\ qcall.before.parts[1].navigation = None
    /\ qcall.before.parts[1].sort # <<>>
    /\ query = qcall.before
    /\ Query_str(query) = Query_str(qcall.before)

RECURSIVE CheckResultsIn(_)
CheckResultsIn(ccr) ==
    {ccr.checks[i] : i \in 1..Len(ccr.checks)}
      \cup UNION {CheckResultsIn(ccr.children[i]) : i \in 1..Len(ccr.children)}

\* C21: a check whose evaluation failed is demoted to an empty result: in the
\* returned tree its count_by_account and resources_failing_by_account are
\* empty, also when the cursor failed after some rows had been delivered.
C21_FailedCheckEmpty ==
    pc \in {"sync", "done"} =>
       \A i \in 1..Len(task) :
          task[i].outcome = "demoted" =>
             \A k \in DictKeys(result) :
                \A cr \in CheckResultsIn(DictGet(result, k, None)) :
                   cr.check.id = checks[i].id =>
                      /\ cr.count_by_account = EmptyDict
                      /\ cr.resources_failing_by_account = EmptyDict

\* C22: navigation bounds are capped at Max in every reachable query: after
\* any sequence of traverse calls with non-negative start and until, also a
\* first traversal with until > Max, every part's navigation has
\* start <= Navigation.Max and until <= Navigation.Max.
C22_NavigationCapped ==
    \A i \in 1..Len(query.parts) :
       query.parts[i].navigation # None =>
          /\ query.parts[i].navigation[1].start <= NavigationMax
          /\ query.parts[i].navigation[1].until <= NavigationMax

\* C23: Query.filter(t) on a query whose current part has no navigation only
\* ANDs t into the term of that part: tag, with-clause, sort list and limit of
\* the part, all other parts, the preamble and the aggregate are unchanged;
\* when the current part has a navigation, a fresh part holding t is inserted
\* in front and every existing part is unchanged.
C23_FilterFrame ==
    qcall.op = "filter" =>
       LET before == qcall.before
           res == mk_term(qcall.arg)
       IN IF before.parts[1].navigation = None
          THEN /\ query = [before EXCEPT !.parts[1].term = query.parts[1].term]
               /\ query.parts[1].term \in {and_term(before.parts[1].term, res),
                                           CombinedTerm(before.parts[1].term, "and", res)}
          ELSE query = [before EXCEPT !.parts = <<PartOf(res)>> \o @]

\* the limits that the two fused parts carry
LimitsPresent(left_last, right_first) ==
    {l[1] : l \in {left_last.limit, right_first.limit} \ {None}}

Smallest(S) == CHOOSE n \in S : \A m \in S : n <= m

RECURSIVE Conjuncts(_)
Conjuncts(t) ==
    IF isinstance(t, "CombinedTerm") /\ t.op = "and"
    THEN Conjuncts(t.left) \cup Conjuncts(t.right)
    ELSE {t}

\* C25: in the part produced by the rewrite for ancestors and descendants the
\* pre-filter is independent of merged data: it holds no ancestors. or
\* descendants. predicate, no 'or' term with such a predicate and no sub-term
\* that the input MergeTerm held in its post-filter; all of these are in the
\* post-filter, and every merge entry of the input term is kept.
C25_PreFilterIndependent ==
    (/\ qcall.op = "rewrite"
     /\ qcall.raised = None
     /\ has_ancestor_descendant(qcall.before.parts[1].term))
    => LET old == qcall.before.parts[1].term
           new == query.parts[1].term
       IN /\ isinstance(new, "MergeTerm")
          /\ new.post_filter # None
          /\ ~has_ancestor_descendant(new.pre_filter)
          /\ isinstance(old, "MergeTerm") =>
                /\ \A i \in 1..Len(old.merge) : old.merge[i] \in SeqToSet(new.merge)
                /\ old.post_filter # None =>
                      /\ Conjuncts(old.post_filter[1]) \cap Conjuncts(new.pre_filter) = {}
                      /\ Conjuncts(old.post_filter[1]) \subseteq Conjuncts(new.post_filter[1])

\* the term has an ancestors. / descendants. predicate whose name has fewer
\* than three dot-separated segments
Malformed(term) ==
    \E p \in SeqToSet(ancestor_descendant_predicates(term)) : ~unpacks(p)

\* C26: rewriting a part that holds a malformed ancestor/descendant predicate
\* name, e.g. ancestors.account, fails with the AttributeError that quotes the
\* expected format, and with no other kind of error.
C26_MalformedName ==
    (qcall.op = "rewrite" /\ Malformed(qcall.before.parts[1].term))
    => qcall.raised = Some("AttributeError")

\* the severities at or above the threshold
AtOrAbove(threshold) == {s \in SeqToSet(ReportSeverity) : Prio(threshold) <= Prio(s)}

\* C27: the severity restriction of the query of load_benchmarks admits only
\* severities at or above the threshold S: severities_including(S) is the
\* set of severities s with prio(S) <= prio(s), so an issue of a lower
\* severity never matches the predicate on security.issues[].
C27_SeverityThreshold ==
    (pc \in {"loading", "loaded"} /\ args.context.severity # None)
    => LET S == args.context.severity[1]
       IN /\ SeqToSet(severities_including(args.context, S)) = AtOrAbove(S)
          /\ \A s \in SeqToSet(ReportSeverity) \ AtOrAbove(S) :
                \A n \in Nodes : \A k \in 1..Len(security[n]) :
                   ~issue_matches([security[n][k] EXCEPT !.severity = s],
                                  args.names, args.context)

----------------------------------------------------------------------------
(* Properties of the event registry *)

Dispatching(c) == caller[c].op = "dispatch" /\ caller[c].pc \in {"start", "join"}

NoEmptyEntry == \A i \in 1..Len(events) : events[i][2] # EmptyDict

\* C29: under every interleaving of add_event_listener, remove_event_listener
\* and dispatch_event the registry is modified only by a holder of the write
\* lock and never holds an event type with an empty listener map.
C29_RegistryGuarded ==
    /\ []NoEmptyEntry
    /\ [][events' # events => rwlock.writer # {}]_vars

----------------------------------------------------------------------------
(* Referential integrity of the stored benchmarks *)

KnownCheckIds == {c.id : c \in KnownChecks}

\* every check id referenced by a benchmark of the user store is known
Integrity ==
    \A i \in 1..Len(benchmark_db) : nested_checks(benchmark_db[i][2]) \subseteq KnownCheckIds

\* C30 as stated: after any sequence of update_check, delete_check,
\* update_benchmark and delete_benchmark calls every check id referenced by a
\* benchmark of the user store resolves to a known check.
C30_IntegrityAlways == Integrity

\* C30: every check id referenced by a benchmark resolves to a known check
\* when update_benchmark stores it, and update_check, update_benchmark and
\* delete_benchmark keep it so; update_benchmark rejects a benchmark that
\* references an unknown check and leaves the store unchanged. delete_check
\* is not refused for a referenced check.
C30_IntegrityKept ==
    [][/\ (Integrity /\ call'.op # "delete_check") => Integrity'
       /\ (call'.op = "update_benchmark" /\ call'.outcome = "ok")
             => \A b \in SeqToSet(DictValues(benchmark_db')) :
                   b.id = call'.id => nested_checks(b) \subseteq KnownCheckIds'
       /\ (call'.op = "update_benchmark" /\ call'.outcome = "invalid")
             => benchmark_db' = benchmark_db]_vars

C30_Witness ==
    /\ call.op = "update_benchmark"
    /\ call.outcome = "ok"
    /\ call.id = "b2"
    /\ DictHas(report_check_db, "u1")
    /\ "u1" \in nested_checks(DictGet(benchmark_db, "b2", None))
    /\ Integrity

====
